---- MODULE Spec2Model ----
(***************************************************************************)
(* Incremental transcript indexer of claudecodeui (server/db-indexer.js)   *)
(* over the SQLite index store (server/database.js).                       *)
(*                                                                         *)
(* A transcript file is a sequence of lines.  Each line carries its UTF-8  *)
(* byte length (without the newline) and what JSON.parse makes of it.  The *)
(* last line of a file may be only partly on disk (a writer in the middle  *)
(* of a write): `pend` counts the bytes of it, newline included, that are  *)
(* still missing.                                                          *)
(***************************************************************************)
EXTENDS Integers, Sequences, FiniteSets, TLC

\* ------------------------------------------------------------------ bounds
MaxMtime == 4

\* ------------------------------------------------------------- null values
NullStr == "null"
NullNum == -1

\* ---------------------------------------------------------- transcript lines
\* kind: "rec" (a JSON object), "blank" (line.trim() is empty), "bad"
\* (JSON.parse throws).  len: Buffer.byteLength(line, "utf8").
MkLine(kind, len, sid, uuid, parent, type, ts, cwd, summary) ==
  [kind |-> kind, len |-> len, sessionId |-> sid, uuid |-> uuid,
   parentUuid |-> parent, type |-> type, timestamp |-> ts, cwd |-> cwd,
   summary |-> summary]

RecUser == MkLine("rec", 3, "a", "u1", NullStr, "user", 2, "/w", NullStr)
RecAsst == MkLine("rec", 4, "a", "u2", "u1", "assistant", 1, NullStr, NullStr)
RecOther == MkLine("rec", 5, "b", "u3", NullStr, "user", 3, "/x", NullStr)
RecSummary == MkLine("rec", 2, NullStr, NullStr, NullStr, "summary", NullNum, NullStr, "S1")
BlankLine == MkLine("blank", 0, NullStr, NullStr, NullStr, NullStr, NullNum, NullStr, NullStr)
BadLine(n) == MkLine("bad", n, NullStr, NullStr, NullStr, NullStr, NullNum, NullStr, NullStr)

\* The lines a writer appends to the transcript of session "a".
WriterLines == {RecUser, RecAsst, RecOther, RecSummary, BlankLine, BadLine(1)}

\* The line a reader may find partly written.
PartialLines == {RecUser}

\* ------------------------------------------------------------------ files
Files == {"a", "b"}

RECURSIVE SumBytes(_, _)
\* Bytes of the first n lines, each with its newline.
SumBytes(lines, n) ==
  IF n = 0 THEN 0 ELSE SumBytes(lines, n - 1) + lines[n].len + 1

LineStart(lines, i) == SumBytes(lines, i - 1)

\* stats.size
FileSize(f) == SumBytes(f.lines, Len(f.lines)) - f.pend

EmptyFile == [lines |-> <<>>, pend |-> 0, mtime |-> 1]

\* ------------------------------------------- fs.createReadStream + readline
\* Index of the line of f.lines that holds byte `off` (off < total bytes).
LineAt(lines, off) ==
  CHOOSE i \in 1..Len(lines) :
    LineStart(lines, i) <= off /\ off < LineStart(lines, i) + lines[i].len + 1

LineBytes_noNewline(n) == n

\* lineBytes of a line of n bytes of text: Buffer.byteLength(line) + 1.
LineBytes(n) == n + 1

\* Text that starts mid-line, or that stops before the line's end, is no
\* JSON object: an empty text is a blank line, any other text fails to parse.
Fragment(n) == IF n = 0 THEN BlankLine ELSE BadLine(n)

\* What the stream hands to the loop at stream position `pos`:
\*   avail "line": a newline-terminated line (possibly entered mid-line),
\*   avail "tail": the unterminated rest of the file, emitted when the stream
\*                 ends, avail "eof": nothing left.
\* used is the number of bytes of the file the item takes, bytes the loop's
\* lineBytes for it.
NextItem(f, pos) ==
  LET n == Len(f.lines)
      size == FileSize(f)
  IN IF pos >= size
     THEN [avail |-> "eof", line |-> BlankLine, used |-> 0, bytes |-> 0]
     ELSE LET i == LineAt(f.lines, pos)
              s == LineStart(f.lines, i)
              terminated == i < n \/ f.pend = 0
          IN IF terminated
             THEN LET text == s + f.lines[i].len - pos
                  IN [avail |-> "line",
                      line |-> IF pos = s THEN f.lines[i] ELSE Fragment(text),
                      used |-> text + 1,
                      bytes |-> LineBytes(text)]
             ELSE LET text == size - pos
                  IN [avail |-> "tail",
                      line |-> IF pos = s /\ f.pend = 1
                               THEN f.lines[i] ELSE Fragment(text),
                      used |-> text,
                      bytes |-> LineBytes(text)]

\* ------------------------------------------------- processSessionFile locals
MaxTs(a, b) == IF a = NullNum \/ b > a THEN b ELSE a

InitLocals_fromOne(startOffset, startNumber) ==
  [byteOffset |-> startOffset, messageNumber |-> startNumber + 1,
   messageIndexes |-> <<>>, uuidMappings |-> <<>>,
   lastActivity |-> NullNum, summary |-> "New Session", cwd |-> NullStr]

\* Locals as set up before the read loop.
InitLocals(startOffset, startNumber) ==
  [byteOffset |-> startOffset, messageNumber |-> startNumber,
   messageIndexes |-> <<>>, uuidMappings |-> <<>>,
   lastActivity |-> NullNum, summary |-> "New Session", cwd |-> NullStr]

EntryOffset_afterLine(loc, bytes) == loc.byteOffset + bytes

\* The byteOffset a message's index entry records: the running offset before
\* the line is added to it.
EntryOffset(loc, bytes) == loc.byteOffset

\* One iteration of the for-await loop over the line `ln` of `bytes` bytes.
ProcLine(loc, ln, bytes, sessionId, filePath) ==
  LET parsed == ln.kind = "rec"
      sum == IF parsed /\ ln.type = "summary" /\ ln.summary # NullStr
             THEN ln.summary ELSE loc.summary
      mine == parsed /\ ln.sessionId = sessionId
      num == loc.messageNumber + 1
      idx == [sessionId |-> sessionId, messageNumber |-> num,
              uuid |-> ln.uuid, type |-> ln.type, timestamp |-> ln.timestamp,
              byteOffset |-> EntryOffset(loc, bytes), filePath |-> filePath]
      map == [uuid |-> ln.uuid, sessionId |-> sessionId,
              parentUuid |-> ln.parentUuid, type |-> ln.type]
  IN [byteOffset |-> loc.byteOffset + bytes,
      messageNumber |-> IF mine THEN num ELSE loc.messageNumber,
      messageIndexes |-> IF mine THEN Append(loc.messageIndexes, idx)
                         ELSE loc.messageIndexes,
      uuidMappings |-> IF mine /\ ln.uuid # NullStr
                       THEN Append(loc.uuidMappings, map)
                       ELSE loc.uuidMappings,
      lastActivity |-> IF mine /\ ln.timestamp # NullNum
                       THEN MaxTs(loc.lastActivity, ln.timestamp)
                       ELSE loc.lastActivity,
      summary |-> sum,
      cwd |-> IF mine /\ ln.cwd # NullStr /\ loc.cwd = NullStr
              THEN ln.cwd ELSE loc.cwd]

\* The stream position and the locals when the stream is opened.
OpenAt(startOffset, startNumber) ==
  [pos |-> startOffset, loc |-> InitLocals(startOffset, startNumber)]

RECURSIVE ReadLines(_, _, _, _)
\* The loop over the newline-terminated lines the file now holds; r is the
\* stream position and the locals.
ReadLines(f, r, sessionId, filePath) ==
  LET it == NextItem(f, r.pos)
  IN IF it.avail = "line"
     THEN ReadLines(f, [pos |-> r.pos + it.used,
                        loc |-> ProcLine(r.loc, it.line, it.bytes, sessionId, filePath)],
                    sessionId, filePath)
     ELSE r

\* The stream ends: an unterminated rest of the file is the last line.
ReadTail(f, r, sessionId, filePath) ==
  LET it == NextItem(f, r.pos)
  IN IF it.avail = "tail"
     THEN [pos |-> r.pos + it.used,
           loc |-> ProcLine(r.loc, it.line, it.bytes, sessionId, filePath)]
     ELSE r

\* The whole loop over an unchanging file.
ReadAll(f, r, sessionId, filePath) ==
  ReadTail(f, ReadLines(f, r, sessionId, filePath), sessionId, filePath)

\* ------------------------------------------------------------- index store
\* Tables of server/database.js as sets of rows.  The columns that hold
\* Date.now() (last_processed_at, updated_at) and the cache_version counters,
\* which only getStats reads, are left out.
EmptyDb ==
  [file_state |-> {}, message_index |-> {}, uuid_mapping |-> {},
   sessions |-> {}, projects |-> {}]

\* SQL comparison: NULL > x and x > NULL are not true.
SqlGt(a, b) == a # NullNum /\ b # NullNum /\ a > b

Coalesce(a, b) == IF a # NullStr THEN a ELSE b

\* The set holding the selected row, or the empty set (undefined).
getFileState(d, filePath) ==
  {[last_byte_offset |-> r.last_byte_offset, last_mtime |-> r.last_mtime,
    file_size |-> r.file_size] : r \in {x \in d.file_state : x.file_path = filePath}}

updateFileState(d, filePath, byteOffset, mtime, fileSize) ==
  [d EXCEPT !.file_state =
     {x \in @ : x.file_path # filePath} \cup
     {[file_path |-> filePath, last_byte_offset |-> byteOffset,
       last_mtime |-> mtime, file_size |-> fileSize]}]

deleteSessionMessageIndexes_withEdges(d, sessionId) ==
  [d EXCEPT !.message_index = {x \in @ : x.session_id # sessionId},
            !.uuid_mapping = {x \in @ : x.session_id # sessionId}]

deleteSessionMessageIndexes(d, sessionId) ==
  [d EXCEPT !.message_index = {x \in @ : x.session_id # sessionId}]

\* INSERT OR REPLACE of one message_index row.
InsertMessageRow(rows, e) ==
  {x \in rows : ~(x.session_id = e.sessionId /\ x.message_number = e.messageNumber)}
  \cup {[session_id |-> e.sessionId, message_number |-> e.messageNumber,
         uuid |-> e.uuid, type |-> e.type, timestamp |-> e.timestamp,
         byte_offset |-> e.byteOffset, file_path |-> e.filePath]}

RECURSIVE InsertMessageRows(_, _)
InsertMessageRows(rows, entries) ==
  IF entries = <<>> THEN rows
  ELSE InsertMessageRows(InsertMessageRow(rows, Head(entries)), Tail(entries))

\* One transaction over all entries.
insertMessageIndexBatch(d, entries) ==
  [d EXCEPT !.message_index = InsertMessageRows(@, entries)]

\* INSERT OR REPLACE of one uuid_mapping row.
InsertUuidRow(rows, m) ==
  {x \in rows : x.uuid # m.uuid}
  \cup {[uuid |-> m.uuid, session_id |-> m.sessionId,
         parent_uuid |-> m.parentUuid, type |-> m.type]}

RECURSIVE InsertUuidRows(_, _)
InsertUuidRows(rows, mappings) ==
  IF mappings = <<>> THEN rows
  ELSE InsertUuidRows(InsertUuidRow(rows, Head(mappings)), Tail(mappings))

\* One transaction over all mappings.
insertUuidMappingBatch(d, mappings) ==
  [d EXCEPT !.uuid_mapping = InsertUuidRows(@, mappings)]

SessionConflict_overwrites(old, new) ==
  [old EXCEPT
     !.summary = IF new.summary # "New Session" THEN new.summary ELSE @,
     !.message_count = new.message_count,
     !.last_activity = new.last_activity,
     !.cwd = Coalesce(new.cwd, @),
     !.file_path = Coalesce(new.file_path, @)]

SessionConflict_addsCount(old, new) ==
  [old EXCEPT
     !.summary = IF new.summary # "New Session" THEN new.summary ELSE @,
     !.message_count = @ + new.message_count,
     !.last_activity = IF SqlGt(new.last_activity, @) THEN new.last_activity ELSE @,
     !.cwd = Coalesce(new.cwd, @),
     !.file_path = Coalesce(new.file_path, @)]

\* INSERT ... ON CONFLICT(id) DO UPDATE of the sessions table.
SessionConflict(old, new) ==
  [old EXCEPT
     !.summary = IF new.summary # "New Session" THEN new.summary ELSE @,
     !.message_count = IF new.message_count > @ THEN new.message_count ELSE @,
     !.last_activity = IF SqlGt(new.last_activity, @) THEN new.last_activity ELSE @,
     !.cwd = Coalesce(new.cwd, @),
     !.file_path = Coalesce(new.file_path, @)]

upsertSession(d, s) ==
  LET new == [id |-> s.id, project_name |-> s.projectName,
              summary |-> s.summary, message_count |-> s.messageCount,
              last_activity |-> s.lastActivity, cwd |-> s.cwd,
              provider |-> s.provider, file_path |-> s.filePath]
      olds == {x \in d.sessions : x.id = s.id}
  IN [d EXCEPT !.sessions =
        IF olds = {} THEN @ \cup {new}
        ELSE (@ \ olds) \cup {SessionConflict(x, new) : x \in olds}]

\* INSERT ... ON CONFLICT(name) DO UPDATE of the projects table.
ProjectConflict(old, new) ==
  [old EXCEPT
     !.display_name = new.display_name,
     !.full_path = new.full_path,
     !.session_count = new.session_count,
     !.last_activity = IF SqlGt(new.last_activity, @) THEN new.last_activity ELSE @,
     !.has_claude_sessions = new.has_claude_sessions \/ @]

upsertProject(d, p) ==
  LET new == [name |-> p.name, display_name |-> p.displayName,
              full_path |-> p.fullPath, session_count |-> p.sessionCount,
              last_activity |-> p.lastActivity,
              has_claude_sessions |-> p.hasClaudeSessions]
      olds == {x \in d.projects : x.name = p.name}
  IN [d EXCEPT !.projects =
        IF olds = {} THEN @ \cup {new}
        ELSE (@ \ olds) \cup {ProjectConflict(x, new) : x \in olds}]

\* --------------------------------------------------------------- variables
VARIABLES
  files,   \* the project directory: file name -> content, pend, mtime
  db,      \* the index store
  pass,    \* the running processSessionFile call, or its last result
  scan,    \* the running indexProject call
  g        \* history: snapshots taken at the stat of the running pass

vars == <<files, db, pass, scan, g>>

\* ------------------------------------------------- processSessionFile steps
Row(S) == CHOOSE r \in S : TRUE

\* path.basename(filePath, ".jsonl"); a file is named by its session id.
SessionIdOf(filePath) == filePath

\* indexProject's projectName; one project directory is modelled.
ProjectName == "proj"

IsUnchanged_wrongColumn(fileState, stats) ==
  fileState # {} /\ Row(fileState).file_size = stats.mtimeMs

\* fileState && fileState.last_mtime === stats.mtimeMs
IsUnchanged(fileState, stats) ==
  fileState # {} /\ Row(fileState).last_mtime = stats.mtimeMs

IsIncrementalValue_zeroSizeGrows(fileState, stats) ==
  IF fileState = {} THEN "undefined"
  ELSE IF ~(stats.size > Row(fileState).file_size) THEN "false"
  ELSE IF Row(fileState).last_mtime < stats.mtimeMs THEN "true" ELSE "false"

IsIncrementalValue_ignoresSize(fileState, stats) ==
  IF fileState = {} THEN "undefined"
  ELSE IF Row(fileState).file_size = 0 THEN "0"
  ELSE IF Row(fileState).last_mtime < stats.mtimeMs THEN "true" ELSE "false"

\* The value of the && chain: undefined, 0, false or true.
IsIncrementalValue(fileState, stats) ==
  IF fileState = {} THEN "undefined"
  ELSE IF Row(fileState).file_size = 0 THEN "0"
  ELSE IF ~(stats.size > Row(fileState).file_size) THEN "false"
  ELSE IF Row(fileState).last_mtime < stats.mtimeMs THEN "true" ELSE "false"

Truthy(v) == v = "true"

StartOffset(isIncremental, fileState) ==
  IF Truthy(isIncremental) THEN Row(fileState).last_byte_offset ELSE 0

\* isIncremental ? fileState.message_count || 0 : 0, where fileState is the
\* row getFileState selects.
StartMessageNumber(isIncremental, fileState) ==
  IF Truthy(isIncremental)
  THEN IF "message_count" \in DOMAIN Row(fileState)
       THEN Row(fileState).message_count ELSE 0
  ELSE 0

NoResult ==
  [kind |-> "none", sessionId |-> NullStr, messagesIndexed |-> 0,
   isIncremental |-> "undefined", totalMessages |-> 0, cwd |-> NullStr,
   thrown |-> FALSE]

SkippedResult(reason) == [NoResult EXCEPT !.kind = reason]

IndexedResult(p) ==
  [kind |-> "indexed", sessionId |-> SessionIdOf(p.file),
   messagesIndexed |-> Len(p.loc.messageIndexes),
   isIncremental |-> p.isIncremental,
   totalMessages |-> p.loc.messageNumber, cwd |-> p.loc.cwd,
   thrown |-> FALSE]

CatchResult_rethrow == [SkippedResult("error") EXCEPT !.thrown = TRUE]

\* The catch block of processSessionFile.
CatchResult == SkippedResult("error")

IdlePass ==
  [pc |-> "idle", file |-> "a", stats |-> [mtimeMs |-> 0, size |-> 0],
   isIncremental |-> "undefined", startOffset |-> 0, pos |-> 0,
   loc |-> InitLocals(0, 0), result |-> NoResult]

PassOrder_checkpointFirst ==
  <<"updateFileState", "insertMessageIndexBatch", "insertUuidMappingBatch",
    "upsertSession">>

\* The store calls after the read loop, in program order.
PassOrder ==
  <<"insertMessageIndexBatch", "insertUuidMappingBatch", "upsertSession",
    "updateFileState">>

ApplyWrite(name, d, p) ==
  CASE name = "insertMessageIndexBatch" ->
         IF Len(p.loc.messageIndexes) > 0
         THEN insertMessageIndexBatch(d, p.loc.messageIndexes) ELSE d
    [] name = "insertUuidMappingBatch" ->
         IF Len(p.loc.uuidMappings) > 0
         THEN insertUuidMappingBatch(d, p.loc.uuidMappings) ELSE d
    [] name = "upsertSession" ->
         upsertSession(d, [id |-> SessionIdOf(p.file), projectName |-> ProjectName,
                           summary |-> p.loc.summary,
                           messageCount |-> p.loc.messageNumber,
                           lastActivity |-> p.loc.lastActivity,
                           cwd |-> p.loc.cwd, provider |-> "claude",
                           filePath |-> p.file])
    [] name = "updateFileState" ->
         updateFileState(d, p.file, p.loc.byteOffset, p.stats.mtimeMs, p.stats.size)

RECURSIVE ApplyWrites(_, _, _)
\* The first k store calls of PassOrder.
ApplyWrites(d, p, k) ==
  IF k = 0 THEN d
  ELSE ApplyWrite(PassOrder[k], ApplyWrites(d, p, k - 1), p)

\* Lines 36-66: the pass as it enters the read loop, and the store after the
\* purge of a full pass.
Stat(f, filePath) ==
  [IdlePass EXCEPT !.file = filePath,
                   !.stats = [mtimeMs |-> f.mtime, size |-> FileSize(f)]]

Decide(d, p) ==
  LET fileState == getFileState(d, p.file)
      inc == IsIncrementalValue(fileState, p.stats)
  IN IF IsUnchanged(fileState, p.stats)
     THEN [db |-> d,
           pass |-> [p EXCEPT !.pc = "idle", !.result = SkippedResult("unchanged")]]
     ELSE [db |-> IF Truthy(inc) THEN d
                  ELSE deleteSessionMessageIndexes(d, SessionIdOf(p.file)),
           pass |-> [p EXCEPT !.pc = "read", !.isIncremental = inc,
                              !.startOffset = StartOffset(inc, fileState),
                              !.pos = StartOffset(inc, fileState),
                              !.loc = InitLocals(StartOffset(inc, fileState),
                                                 StartMessageNumber(inc, fileState))]]

\* One uninterrupted pass over the unchanging file f named filePath.
RunPass(d, f, filePath) ==
  LET dec == Decide(d, Stat(f, filePath))
      r == ReadAll(f, [pos |-> dec.pass.pos, loc |-> dec.pass.loc],
                   SessionIdOf(filePath), filePath)
      p1 == [dec.pass EXCEPT !.pos = r.pos, !.loc = r.loc]
  IN IF dec.pass.pc = "idle" THEN d
     ELSE ApplyWrites(dec.db, p1, Len(PassOrder))

\* -------------------------------------------------------------- history
\* clean: no write to the file since the stat of the pass (of its first
\*   attempt, when the pass is the re-run of a crashed one: crashed);
\* intact: no truncation since the stat of the pass;
\* expect: what the crashed pass would have left in the store had it run to
\*   its end, taken when it crashed;
\* histOk/histN: the last pass that returned was a full pass over an
\*   unchanging, newline-terminated file of histN lines, and the file has only
\*   grown by appended lines since; prevOk/prevN: histOk/histN at the stat.
\* shrunk: at the stat the file had a checkpoint of a larger size and another
\*   mtime; faulted: the files whose pass met a failure in the current scan;
\* fresh: at the stat the file had no checkpoint.
\* prior: the session's index rows at the stat of a pass that starts from
\*   offset 0 (none otherwise).
\* before: the file's checkpoint, the session's index rows and its session
\*   row at the start of the pass, kept until the pass returns a result.
\* lowered: the last upsertSession of SpecStore carried a smaller message
\* count and an earlier last activity than the row it met.
\* What the store holds for the file filePath and its session.
StoreOf(d, filePath) ==
  [EmptyDb EXCEPT
     !.file_state = {r \in d.file_state : r.file_path = filePath},
     !.message_index = {r \in d.message_index : r.session_id = SessionIdOf(filePath)},
     !.sessions = {r \in d.sessions : r.id = SessionIdOf(filePath)}]

InitG ==
  [clean |-> FALSE, intact |-> FALSE, crashed |-> FALSE, expect |-> EmptyDb,
   histOk |-> FALSE, histN |-> 0, prevOk |-> FALSE, prevN |-> 0,
   shrunk |-> FALSE, faulted |-> {}, fresh |-> FALSE, lowered |-> FALSE,
   prior |-> {}, before |-> EmptyDb]

ScanOff ==
  [pc |-> "off", queue |-> <<>>, results |-> <<>>, sessionCount |-> 0,
   lastActivity |-> NullNum, projectCwd |-> NullStr, listed |-> <<>>,
   outcome |-> "none"]

\* ------------------------------------------------------------- the writer
\* The CLI that owns the transcript appends whole lines, may be seen in the
\* middle of a write, and may cut the file back.  Every write moves mtime to
\* the next tick, so MaxMtime bounds the number of writes to a file.
Ticks(m) == {t \in {m + 1} : t <= MaxMtime}

PendChoices(ln) == {k \in 1..2 : k <= ln.len}

Touched == [g EXCEPT !.clean = FALSE, !.expect = EmptyDb]

AppendLine(f, ln) ==
  /\ files[f].pend = 0
  /\ ln \in WriterLines
  /\ \E t \in Ticks(files[f].mtime) :
       files' = [files EXCEPT ![f] = [lines |-> Append(@.lines, ln), pend |-> 0,
                                      mtime |-> t]]
  /\ g' = Touched
  /\ UNCHANGED <<db, pass, scan>>

AppendPartial(f, ln) ==
  /\ files[f].pend = 0
  /\ \E t \in Ticks(files[f].mtime), k \in PendChoices(ln) :
       files' = [files EXCEPT ![f] = [lines |-> Append(@.lines, ln), pend |-> k,
                                      mtime |-> t]]
  /\ g' = Touched
  /\ UNCHANGED <<db, pass, scan>>

CompleteLine(f) ==
  /\ files[f].pend > 0
  /\ \E t \in Ticks(files[f].mtime) :
       files' = [files EXCEPT ![f] = [@ EXCEPT !.pend = 0, !.mtime = t]]
  /\ g' = Touched
  /\ UNCHANGED <<db, pass, scan>>

\* Truncation to the first k lines; the new mtime may be older (a restore).
TruncateFile(f) ==
  /\ \E k \in 0..(Len(files[f].lines) - 1),
        t \in Ticks(files[f].mtime) :
       files' = [files EXCEPT ![f] = [lines |-> SubSeq(@.lines, 1, k), pend |-> 0,
                                      mtime |-> t]]
  /\ g' = [Touched EXCEPT !.intact = FALSE, !.histOk = FALSE]
  /\ UNCHANGED <<db, pass, scan>>

\* ------------------------------------------------------ processSessionFile
\* Lines 36-66: the stat, getFileState, the unchanged test, the choice of the
\* pass and the purge.  Nothing here reads the file's content, so a write to
\* the file between the stat and the purge is a write after the purge.
PassBegin(f) ==
  /\ pass.pc = "idle"
  /\ LET dec == Decide(db, Stat(files[f], f))
         rerun == g.crashed /\ g.clean /\ pass.file = f /\ pass.result.kind = "none"
     IN /\ db' = dec.db
        /\ pass' = dec.pass
        /\ g' = [g EXCEPT
                   !.intact = TRUE, !.clean = TRUE,
                   !.crashed = rerun,
                   !.expect = IF rerun THEN @ ELSE EmptyDb,
                   !.prevOk = g.histOk, !.prevN = g.histN,
                   !.histOk = IF dec.pass.pc = "idle" THEN @ ELSE FALSE,
                   !.fresh = ~\E r \in db.file_state : r.file_path = f,
                   !.before = IF dec.pass.pc = "read" THEN StoreOf(db, f) ELSE EmptyDb,
                   !.prior = IF dec.pass.pc = "read" /\ ~Truthy(dec.pass.isIncremental)
                             THEN {r \in db.message_index :
                                     r.session_id = SessionIdOf(f)}
                             ELSE {},
                   !.shrunk = \E r \in db.file_state :
                                 /\ r.file_path = f
                                 /\ FileSize(files[f]) < r.file_size
                                 /\ files[f].mtime # r.last_mtime]
  /\ UNCHANGED files

\* The loop takes the newline-terminated lines the stream has delivered.
PassRead ==
  /\ pass.pc = "read"
  /\ NextItem(files[pass.file], pass.pos).avail = "line"
  /\ LET r == ReadLines(files[pass.file], [pos |-> pass.pos, loc |-> pass.loc],
                        SessionIdOf(pass.file), pass.file)
     IN pass' = [pass EXCEPT !.pos = r.pos, !.loc = r.loc]
  /\ UNCHANGED <<files, db, scan, g>>

AtEnd == NextItem(files[pass.file], pass.pos).avail # "line"

\* The pass as the loop leaves it when the stream ends.
Finished ==
  LET r == ReadTail(files[pass.file], [pos |-> pass.pos, loc |-> pass.loc],
                    SessionIdOf(pass.file), pass.file)
  IN [pass EXCEPT !.pos = r.pos, !.loc = r.loc]

\* Lines 139-170: the stream ends, then the batches, the session, the
\* checkpoint and the result, with no suspension point in between.
PassFinish ==
  /\ pass.pc = "read"
  /\ AtEnd
  /\ db' = ApplyWrites(db, Finished, Len(PassOrder))
  /\ pass' = [Finished EXCEPT !.pc = "idle", !.result = IndexedResult(Finished)]
  /\ g' = [g EXCEPT !.histOk = ~Truthy(pass.isIncremental) /\ g.clean
                                /\ files[pass.file].pend = 0,
                    !.histN = Len(files[pass.file].lines),
                    !.before = EmptyDb]
  /\ UNCHANGED <<files, scan>>

\* An exception inside the try block reaches the catch at line 171.
\* The stat, the store read or the purge fails: nothing was written.
StatThrow(f) ==
  /\ pass.pc = "idle"
  /\ pass' = [IdlePass EXCEPT !.file = f, !.result = CatchResult]
  /\ g' = [g EXCEPT !.crashed = FALSE, !.clean = FALSE, !.expect = EmptyDb,
                    !.prevOk = g.histOk, !.prevN = g.histN, !.shrunk = FALSE,
                    !.before = StoreOf(db, f),
                    !.faulted = @ \cup {f}]
  /\ UNCHANGED <<files, db>>

\* The stream fails.
PassThrow ==
  /\ pass.pc = "read"
  /\ pass' = [pass EXCEPT !.pc = "idle", !.result = CatchResult]
  /\ g' = [g EXCEPT !.crashed = FALSE, !.expect = EmptyDb,
                    !.faulted = @ \cup {pass.file}]
  /\ UNCHANGED <<files, db, scan>>

\* The store call after the first k of PassOrder fails.
PassWriteThrow ==
  /\ pass.pc = "read"
  /\ AtEnd
  /\ \E k \in 0..(Len(PassOrder) - 1) : db' = ApplyWrites(db, Finished, k)
  /\ pass' = [Finished EXCEPT !.pc = "idle", !.result = CatchResult]
  /\ g' = [g EXCEPT !.crashed = FALSE, !.expect = EmptyDb,
                    !.faulted = @ \cup {pass.file}]
  /\ UNCHANGED <<files, scan>>

\* The pass as one uninterrupted read of the file from its start offset
\* leaves it.
Uninterrupted ==
  LET r == ReadAll(files[pass.file],
                   OpenAt(pass.startOffset,
                          pass.loc.messageNumber - Len(pass.loc.messageIndexes)),
                   SessionIdOf(pass.file), pass.file)
  IN [pass EXCEPT !.pos = r.pos, !.loc = r.loc]

\* The server process dies inside a pass, possibly between two store calls;
\* the store keeps what was committed.
Crash ==
  /\ pass.pc = "read"
  /\ \/ db' = db
     \/ /\ AtEnd
        /\ \E k \in 1..(Len(PassOrder) - 1) : db' = ApplyWrites(db, Finished, k)
  /\ pass' = [IdlePass EXCEPT !.file = pass.file]
  /\ scan' = ScanOff
  /\ g' = IF g.crashed
          THEN [g EXCEPT !.before = EmptyDb]
          ELSE [g EXCEPT !.crashed = g.clean, !.before = EmptyDb,
                         !.expect = IF g.clean THEN ApplyWrites(db, Uninterrupted,
                                                               Len(PassOrder))
                                    ELSE EmptyDb]
  /\ UNCHANGED files

\* indexFile(filePath) for a session file of the projects directory.
IndexFile(f) ==
  /\ scan.pc = "off"
  /\ PassBegin(f)
  /\ UNCHANGED scan

IndexFileThrow(f) ==
  /\ scan.pc = "off"
  /\ StatThrow(f)
  /\ UNCHANGED scan

\* ------------------------------------------------------------ indexProject
\* readdir order of the directory's session files.
DirListings == {<<"a", "b">>, <<"b", "a">>}

\* readdir and the filter of lines 213-216.
ScanStart ==
  /\ scan.pc = "off"
  /\ pass.pc = "idle"
  /\ \E l \in DirListings : scan' = [ScanOff EXCEPT !.pc = "next", !.queue = l,
                                                    !.listed = l]
  /\ g' = [g EXCEPT !.faulted = {}]
  /\ UNCHANGED <<files, db, pass>>

\* readdir throws: the catch at line 256.
ScanStartThrow ==
  /\ scan.pc = "off"
  /\ pass.pc = "idle"
  /\ scan' = [ScanOff EXCEPT !.outcome = "error"]
  /\ g' = [g EXCEPT !.faulted = {}]
  /\ UNCHANGED <<files, db, pass>>

\* await processSessionFile(filePath, projectName)
ScanCall ==
  /\ scan.pc = "next"
  /\ scan.queue # <<>>
  /\ PassBegin(Head(scan.queue))
  /\ scan' = [scan EXCEPT !.pc = "wait"]

ScanCallThrow ==
  /\ scan.pc = "next"
  /\ scan.queue # <<>>
  /\ StatThrow(Head(scan.queue))
  /\ scan' = [scan EXCEPT !.pc = "wait"]

\* result.lastActivity: processSessionFile's result has no such field.
ResultLastActivity(r) ==
  IF "lastActivity" \in DOMAIN r THEN r.lastActivity ELSE NullNum

\* Lines 225-241 once processSessionFile has returned; an exception that left
\* it would reach the catch at line 256.
ScanCollect ==
  /\ scan.pc = "wait"
  /\ pass.pc = "idle"
  /\ LET r == pass.result
     IN scan' =
          IF r.thrown
          THEN [scan EXCEPT !.pc = "off", !.outcome = "error"]
          ELSE [scan EXCEPT
                  !.pc = "next",
                  !.queue = Tail(@),
                  !.results = Append(@, r),
                  !.sessionCount = IF r.kind = "indexed" THEN @ + 1 ELSE @,
                  !.lastActivity =
                     IF r.kind = "indexed" /\ ResultLastActivity(r) # NullNum
                     THEN MaxTs(@, ResultLastActivity(r)) ELSE @,
                  !.projectCwd =
                     IF r.kind = "indexed" /\ @ = NullStr /\ r.cwd # NullStr
                     THEN r.cwd ELSE @]
  /\ UNCHANGED <<files, db, pass, g>>

\* getProjectDisplayName: the name in <cwd>/package.json when there is one
\* (pkg), else the path's last segments; decodeProjectName without a cwd.
DisplayName(cwd, pkg) ==
  IF cwd = NullStr THEN "decoded"
  ELSE IF pkg # NullStr THEN pkg ELSE cwd

\* Lines 244-255.
ScanFinish ==
  /\ scan.pc = "next"
  /\ scan.queue = <<>>
  /\ \E pkg \in {NullStr, "pkgname"} :
       db' = upsertProject(db,
               [name |-> ProjectName,
                displayName |-> DisplayName(scan.projectCwd, pkg),
                fullPath |-> IF scan.projectCwd # NullStr THEN scan.projectCwd
                             ELSE "dir",
                sessionCount |-> scan.sessionCount,
                lastActivity |-> scan.lastActivity,
                hasClaudeSessions |-> scan.sessionCount > 0])
  /\ scan' = [scan EXCEPT !.pc = "off", !.outcome = "done"]
  /\ UNCHANGED <<files, pass, g>>

\* upsertProject throws: the catch at line 256.
ScanFinishThrow ==
  /\ scan.pc = "next"
  /\ scan.queue = <<>>
  /\ scan' = [scan EXCEPT !.pc = "off", !.outcome = "error"]
  /\ UNCHANGED <<files, db, pass, g>>

\* ============================================================ messages-cache
\* server/messages-cache.js: the list cache and the body cache of the message
\* access layer, the calls that run against them, and the transcript files
\* they read.
\*
\* Time is counted in ticks of the clock `now`; the two TTLs and the body
\* cache's capacity are scaled to it (60 s, 30 min and 100 in the source).
MaxNow == 3
MaxDiskMtime == 2
LIST_CACHE_TTL == 1
MESSAGE_CACHE_TTL == 2
MAX_CACHED_MESSAGES == 1
MAX_CACHED_SESSIONS == 20

\* The characters of the strings that go into cache keys.
Chars(s) ==
  CASE s = "p" -> <<"p">>
    [] s = "a" -> <<"a">>
    [] s = "a:1" -> <<"a", ":", "1">>

\* String(n) of a message number of one digit.
Digits(n) == <<ToString(n)>>

StartsWith(s, pre) == Len(s) >= Len(pre) /\ SubSeq(s, 1, Len(pre)) = pre

\* `${projectName}:${sessionId}`
getCacheKey(projectName, sessionId) ==
  Chars(projectName) \o <<":">> \o Chars(sessionId)

\* `${cacheKey}:${messageNumber}`
BodyKey(cacheKey, n) == cacheKey \o <<":">> \o Digits(n)

\* The (project, session) pairs that callers ask for.
McKeys == {[project |-> "p", session |-> "a"],
           [project |-> "p", session |-> "a:1"]}

getSessionFilePath(projectName, sessionId) ==
  projectName \o "/" \o sessionId \o ".jsonl"

McPath(k) == getSessionFilePath(k.project, k.session)

McPaths == {McPath(k) : k \in McKeys}

\* A JS Map: a sequence of [key, val] in insertion order; set() of a key
\* that is present keeps its place.
MapHas(m, k) == \E i \in 1..Len(m) : m[i].key = k

MapGet(m, k) == m[CHOOSE i \in 1..Len(m) : m[i].key = k].val

MapSet(m, k, v) ==
  IF MapHas(m, k)
  THEN [i \in 1..Len(m) |-> IF m[i].key = k THEN [key |-> k, val |-> v] ELSE m[i]]
  ELSE Append(m, [key |-> k, val |-> v])

MapDelete(m, k) == SelectSeq(m, LAMBDA e : e.key # k)

\* for (const key of map.keys()) if (key.startsWith(prefix)) map.delete(key)
DeletePrefixed(m, prefix) == SelectSeq(m, LAMBDA e : ~StartsWith(e.key, prefix))

\* Array.prototype.sort with the comparator a.rank - b.rank, which is
\* stable: element i goes behind the elements of a smaller rank and behind
\* the earlier elements of its own rank.
SortByRank(s) ==
  LET before(i) == Cardinality({j \in 1..Len(s) :
                                  \/ s[j].rank < s[i].rank
                                  \/ (s[j].rank = s[i].rank /\ j < i)})
  IN [p \in 1..Len(s) |-> s[CHOOSE i \in 1..Len(s) : before(i) = p - 1]]

\* Transcript records of the two sessions.
McUser == MkLine("rec", 3, "a", "u1", NullStr, "user", 2, "/w", NullStr)
McAsst == MkLine("rec", 4, "a", "u2", "u1", "assistant", 1, NullStr, NullStr)
McLate == MkLine("rec", 2, "a", "u4", "u2", "user", 3, NullStr, NullStr)
McOther == MkLine("rec", 5, "a:1", "u3", NullStr, "user", 1, "/x", NullStr)

\* What a writer may leave in a session file.
McContents(path) ==
  IF path = McPath([project |-> "p", session |-> "a"])
  THEN {<<McUser, McAsst>>, <<McUser>>, <<McUser, McLate, McAsst>>}
  ELSE {<<McOther>>}

\* What the files hold when the server starts.
McFirst(path) ==
  IF path = McPath([project |-> "p", session |-> "a"])
  THEN <<McUser, McAsst>> ELSE <<McOther>>

\* The files that change while the server runs.
McWritten == {McPath([project |-> "p", session |-> "a"])}

NoFile == [exists |-> FALSE, lines |-> <<>>, pend |-> 0, mtime |-> 0]

\* fsPromises.stat(filePath).mtimeMs, null when the stat throws.
getFileMtime(d, filePath) ==
  IF d[filePath].exists THEN d[filePath].mtime ELSE NullNum

\* new Date(entry.timestamp || 0) as a number.
SortRank(entry) == IF entry.timestamp = NullNum THEN 0 ELSE entry.timestamp

\* The entries the read loop of buildMessageIndex collects: the records of
\* the session, each with the offset of its line.
IndexEntries(f, sessionId) ==
  LET own == SelectSeq([i \in 1..Len(f.lines) |-> i],
                       LAMBDA i : f.lines[i].kind = "rec"
                                  /\ f.lines[i].sessionId = sessionId)
  IN [j \in 1..Len(own) |->
        [entry |-> f.lines[own[j]], offset |-> LineStart(f.lines, own[j]),
         rank |-> SortRank(f.lines[own[j]])]]

buildMessageIndex(d, projectName, sessionId) ==
  LET filePath == getSessionFilePath(projectName, sessionId)
      f == d[filePath]
  IN IF ~f.exists
     THEN [list |-> <<>>, offsets |-> <<>>, filePath |-> NullStr]
     ELSE LET entries == SortByRank(IndexEntries(f, sessionId))
          IN [list |-> [i \in 1..Len(entries) |->
                          [number |-> i,
                           id |-> IF entries[i].entry.uuid # NullStr
                                  THEN entries[i].entry.uuid ELSE "msg",
                           timestamp |-> entries[i].entry.timestamp,
                           type |-> entries[i].entry.type]],
              offsets |-> [i \in 1..Len(entries) |-> entries[i].offset],
              filePath |-> filePath]

\* readLineAtOffset: the promise resolves with the first line the stream
\* delivers, rejects when the stream fails, and stays pending when the
\* stream ends without a line (the close handler settles nothing).
readLineAtOffset(d, filePath, offset) ==
  LET f == d[filePath]
  IN IF ~f.exists
     THEN [out |-> "reject", line |-> BlankLine]
     ELSE IF NextItem(f, offset).avail = "eof"
     THEN [out |-> "pending", line |-> BlankLine]
     ELSE [out |-> "resolve", line |-> NextItem(f, offset).line]

\* JSON.parse(line) returns for a JSON object and throws for anything else.
Parses(line) == line.kind = "rec"

\* The variables of server/history-cache.js, modelled further down.
VARIABLES
  oc,   \* the OrchestratorClient object, its sockets and its pending timers
  og,   \* history: what the client's handlers did for each socket
  det,  \* the lock files, the processes and the cached process scan
  dg,   \* history: what the last detectExternalClaude returned
  rt    \* the sessions route: its clock, its last response, the client's copy

svcVars == <<oc, og, det, dg, rt>>

VARIABLES
  hlog,           \* ~/.claude/history.jsonl: exists, lines, mtime
  sessionCache,   \* Map sessionId -> entries, timestamp
  lastFileMtime,  \* the log's mtime as last seen by checkFileChanged
  hcalls,         \* the getSessionPrompts calls in flight
  hg              \* history: what the last step returned and evicted

hcVars == <<hlog, sessionCache, lastFileMtime, hcalls, hg>>

VARIABLES
  disk,               \* session file path -> exists, lines, pend, mtime
  sessionListCaches,  \* Map cacheKey -> list, offsets, filePath, mtime, timestamp
  messageBodyCache,   \* Map bodyCacheKey -> message, accessTime
  calls,              \* the calls in flight, each at one of its await points
  now,                \* Date.now()
  mcg                 \* history: what the last step evicted and returned

ixVars == <<files, db, pass, scan, g>>
mcVars == <<disk, sessionListCaches, messageBodyCache, calls, now, mcg>>
allVars == <<files, db, pass, scan, g, disk, sessionListCaches,
             messageBodyCache, calls, now, mcg, hlog, sessionCache,
             lastFileMtime, hcalls, hg, oc, og, det, dg, rt>>

Procs == {1, 2}

\* The numbers and ranges callers ask for.
McNumbers == 0..2
McRanges == {<<0, 2>>}

\* Caller 1 asks for messages, caller 2 for lists.
MessageCallers == {1}
ListCallers == {2}

NoCache == [list |-> <<>>, offsets |-> <<>>, filePath |-> NullStr,
            mtime |-> NullNum, timestamp |-> 0]

IdleCall ==
  [pc |-> "idle", op |-> "none", key |-> [project |-> "p", session |-> "a"],
   n |-> 0, hi |-> 0, force |-> FALSE, mtime |-> NullNum, cache |-> NoCache,
   rebuilt |-> FALSE, todo |-> <<>>, out |-> <<>>]

CacheKeyOf(k) == getCacheKey(k.project, k.session)

\* A body entry: message and accessTime as in the source; readAt and off
\* record when and at which offset the line was read.
BodyEntry(message, t, off) ==
  [message |-> message, accessTime |-> t, readAt |-> t, off |-> off]

\* cached && Date.now() - cached.accessTime < MESSAGE_CACHE_TTL
IsFreshHit(bodies, bodyCacheKey, t) ==
  /\ MapHas(bodies, bodyCacheKey)
  /\ t - MapGet(bodies, bodyCacheKey).accessTime < MESSAGE_CACHE_TTL

\* cached.accessTime = Date.now()
Touch(bodies, keys, t) ==
  [i \in 1..Len(bodies) |->
     IF bodies[i].key \in keys
     THEN [bodies[i] EXCEPT !.val.accessTime = t] ELSE bodies[i]]

EvictedKeys_newestFirst(bodies) ==
  IF Len(bodies) <= MAX_CACHED_MESSAGES THEN {}
  ELSE LET entries == SortByRank([i \in 1..Len(bodies) |->
                                    [key |-> bodies[i].key,
                                     rank |-> 0 - bodies[i].val.accessTime]])
       IN {entries[i].key : i \in 1..(Len(entries) - MAX_CACHED_MESSAGES)}

\* The keys evictMessageCache deletes: the first size - MAX of the entries
\* sorted by accessTime.
EvictedKeys(bodies) ==
  IF Len(bodies) <= MAX_CACHED_MESSAGES THEN {}
  ELSE LET entries == SortByRank([i \in 1..Len(bodies) |->
                                    [key |-> bodies[i].key,
                                     rank |-> bodies[i].val.accessTime]])
       IN {entries[i].key : i \in 1..(Len(entries) - MAX_CACHED_MESSAGES)}

evictMessageCache(bodies) ==
  SelectSeq(bodies, LAMBDA e : e.key \notin EvictedKeys(bodies))

\* What an evictMessageCache call removed and what it kept.
Evicted(bodies) ==
  [removed |-> {bodies[i].val.accessTime :
                  i \in {j \in 1..Len(bodies) : bodies[j].key \in EvictedKeys(bodies)}},
   kept |-> {bodies[i].val.accessTime :
               i \in {j \in 1..Len(bodies) : bodies[j].key \notin EvictedKeys(bodies)}}]

evictSessionListCache(lists) ==
  IF Len(lists) <= MAX_CACHED_SESSIONS THEN lists
  ELSE LET entries == SortByRank([i \in 1..Len(lists) |->
                                    [key |-> lists[i].key,
                                     rank |-> lists[i].val.timestamp]])
           gone == {entries[i].key : i \in 1..(Len(entries) - MAX_CACHED_SESSIONS)}
       IN SelectSeq(lists, LAMBDA e : e.key \notin gone)

\* needsRefresh of getSessionListCache; currentMtime is falsy when the stat
\* threw.
NeedsRefresh(lists, cacheKey, forceRefresh, currentMtime, t) ==
  \/ forceRefresh
  \/ ~MapHas(lists, cacheKey)
  \/ (currentMtime # NullNum /\ currentMtime # 0
      /\ MapGet(lists, cacheKey).mtime # currentMtime)
  \/ t - MapGet(lists, cacheKey).timestamp > LIST_CACHE_TTL

\* Lines 206-222: the new entry, the two evictions of the list cache and
\* the purge of the session's bodies.
InstallList(lists, bodies, k, built, currentMtime, t) ==
  LET cache == [list |-> built.list, offsets |-> built.offsets,
                filePath |-> built.filePath, mtime |-> currentMtime,
                timestamp |-> t]
  IN [cache |-> cache,
      lists |-> evictSessionListCache(MapSet(lists, CacheKeyOf(k), cache)),
      bodies |-> DeletePrefixed(bodies, CacheKeyOf(k) \o <<":">>)]

\* The numbers of a set in ascending order.
Ascending(S) ==
  [i \in 1..Cardinality(S) |->
     CHOOSE x \in S : Cardinality({y \in S : y < x}) = i - 1]

\* messages.sort((a, b) => a.number - b.number)
SortedItems(out) ==
  SortByRank([i \in 1..Len(out) |-> [out[i] EXCEPT !.rank = out[i].number]])

\* A message of the result of getMessagesByRange; age is how long before the
\* call took it (from the cache or from the file) its line was read.
Item(number, e, t) ==
  [number |-> number, message |-> e.message, readAt |-> e.readAt,
   age |-> t - e.readAt, rank |-> 0]

NoPrompt == [prompt |-> NullStr, timestamp |-> NullNum]

\* The object getMessageList returns.
MessageListing(cache, historyPrompts) ==
  [messages |-> cache.list, total |-> Len(cache.list),
   cachedAt |-> cache.timestamp,
   lastUserPrompt |->
     IF Len(historyPrompts) > 0
     THEN [prompt |-> historyPrompts[Len(historyPrompts)].prompt,
           timestamp |-> historyPrompts[Len(historyPrompts)].timestamp]
     ELSE NoPrompt]

\* No getMessageList call has returned.
NoListing ==
  [messages |-> <<>>, total |-> NullNum, cachedAt |-> NullNum,
   lastUserPrompt |-> NoPrompt]

\* The return of a call: its arguments, the list entry its
\* getSessionListCache returned, and the value.
Return(call, kind, message, hit, readAt, items) ==
  [kind |-> kind, op |-> call.op, key |-> call.key, n |-> call.n,
   cache |-> call.cache, rebuilt |-> call.rebuilt, message |-> message,
   hit |-> hit, readAt |-> readAt, items |-> items, listing |-> NoListing]

NoReturn == Return(IdleCall, "none", BlankLine, FALSE, 0, <<>>)

ReturnNull(call) == Return(call, "null", BlankLine, FALSE, 0, <<>>)

NoEviction == [removed |-> {}, kept |-> {}]

\* History before the first step; listed is what the last getMessageList
\* call returned for each session.
InitMcg ==
  [ev |-> NoEviction, ret |-> NoReturn, listed |-> [k \in McKeys |-> NoListing]]

\* History of the last step: nothing was evicted, nothing returned.
Quiet == [mcg EXCEPT !.ev = NoEviction, !.ret = NoReturn]

\* The synchronous code of a call that follows `await getSessionListCache`:
\* up to the return (call is idle again) or to the next await.
AfterList(call, cache, rebuilt, bodies, t) ==
  LET ck == CacheKeyOf(call.key)
      c1 == [call EXCEPT !.cache = cache, !.rebuilt = rebuilt]
      quit(r) == [call |-> IdleCall, bodies |-> bodies, ev |-> NoEviction, ret |-> r]
  IN CASE call.op = "list" ->
            quit(Return(c1, "cache", BlankLine, FALSE, 0, <<>>))
       [] call.op = "mlist" ->
            [call |-> [c1 EXCEPT !.pc = "prompts"], bodies |-> bodies,
             ev |-> NoEviction, ret |-> NoReturn]
       [] call.op = "msg" ->
            IF call.n < 1 \/ call.n > Len(cache.list) \/ cache.filePath = NullStr
            THEN quit(ReturnNull(c1))
            ELSE [call |-> [c1 EXCEPT !.pc = "read"], bodies |-> bodies,
                  ev |-> NoEviction, ret |-> NoReturn]
       [] call.op = "range" ->
            IF cache.filePath = NullStr
            THEN quit(Return(c1, "messages", BlankLine, FALSE, 0, <<>>))
            ELSE LET nums == {i \in call.n..call.hi : i >= 1 /\ i <= Len(cache.list)}
                     hits == {i \in nums : IsFreshHit(bodies, BodyKey(ck, i), t)}
                     touched == Touch(bodies, {BodyKey(ck, i) : i \in hits}, t)
                     out == [j \in 1..Cardinality(hits) |->
                               Item(Ascending(hits)[j],
                                    MapGet(bodies, BodyKey(ck, Ascending(hits)[j])),
                                    t)]
                     todo == Ascending(nums \ hits)
                 IN IF todo = <<>>
                    THEN [call |-> IdleCall,
                          bodies |-> evictMessageCache(touched),
                          ev |-> Evicted(touched),
                          ret |-> Return(c1, "messages", BlankLine, FALSE, 0,
                                         SortedItems(out))]
                    ELSE [call |-> [c1 EXCEPT !.pc = "rread", !.todo = todo,
                                              !.out = out],
                          bodies |-> touched, ev |-> NoEviction, ret |-> NoReturn]

NewCall(op, k, n, hi, force) ==
  [IdleCall EXCEPT !.pc = "stat", !.op = op, !.key = k, !.n = n, !.hi = hi,
                   !.force = force]

\* getMessageByNumber up to its first await: the body cache is looked up
\* before anything else.
McGetMessageByNumber(c, k, n) ==
  /\ calls[c].pc = "idle"
  /\ LET bk == BodyKey(CacheKeyOf(k), n)
         call == NewCall("msg", k, n, n, FALSE)
     IN IF IsFreshHit(messageBodyCache, bk, now)
        THEN /\ messageBodyCache' = Touch(messageBodyCache, {bk}, now)
             /\ mcg' = [mcg EXCEPT !.ev = NoEviction,
                        !.ret = Return(call, "message",
                                       MapGet(messageBodyCache, bk).message, TRUE,
                                       MapGet(messageBodyCache, bk).readAt, <<>>)]
             /\ UNCHANGED calls
        ELSE /\ calls' = [calls EXCEPT ![c] = call]
             /\ mcg' = Quiet
             /\ UNCHANGED messageBodyCache
  /\ UNCHANGED <<disk, sessionListCaches, now, ixVars, hcVars, svcVars>>

McGetMessagesByRange(c, k, r) ==
  /\ calls[c].pc = "idle"
  /\ calls' = [calls EXCEPT ![c] = NewCall("range", k, r[1], r[2], FALSE)]
  /\ mcg' = Quiet
  /\ UNCHANGED <<disk, sessionListCaches, messageBodyCache, now, ixVars, hcVars, svcVars>>

\* getSessionListCache called by messageExists, getMessageCount and
\* getMessageList, or with forceRefresh.
McGetSessionListCache(c, k, force) ==
  /\ calls[c].pc = "idle"
  /\ calls' = [calls EXCEPT ![c] = NewCall("list", k, 0, 0, force)]
  /\ mcg' = Quiet
  /\ UNCHANGED <<disk, sessionListCaches, messageBodyCache, now, ixVars, hcVars, svcVars>>

\* Lines 188-199: the stat resolves, the cache is looked up and needsRefresh
\* is taken; without a refresh the cached entry is returned to the caller.
McStat(c) ==
  /\ calls[c].pc = "stat"
  /\ LET call == calls[c]
         ck == CacheKeyOf(call.key)
         currentMtime == getFileMtime(disk, McPath(call.key))
     IN IF NeedsRefresh(sessionListCaches, ck, call.force, currentMtime, now)
        THEN /\ calls' = [calls EXCEPT ![c] = [call EXCEPT !.pc = "build",
                                                          !.mtime = currentMtime]]
             /\ UNCHANGED messageBodyCache
             /\ mcg' = Quiet
        ELSE LET a == AfterList(call, MapGet(sessionListCaches, ck), FALSE,
                                messageBodyCache, now)
             IN /\ calls' = [calls EXCEPT ![c] = a.call]
                /\ messageBodyCache' = a.bodies
                /\ mcg' = [mcg EXCEPT !.ev = a.ev, !.ret = a.ret]
  /\ UNCHANGED <<disk, sessionListCaches, now, ixVars, hcVars, svcVars>>

\* Lines 200-225: buildMessageIndex has read the file; the entry is set,
\* the session's bodies are purged and the entry is returned to the caller.
McBuild(c) ==
  /\ calls[c].pc = "build"
  /\ LET call == calls[c]
         built == buildMessageIndex(disk, call.key.project, call.key.session)
         inst == InstallList(sessionListCaches, messageBodyCache, call.key,
                             built, call.mtime, now)
         a == AfterList(call, inst.cache, TRUE, inst.bodies, now)
     IN /\ sessionListCaches' = inst.lists
        /\ calls' = [calls EXCEPT ![c] = a.call]
        /\ messageBodyCache' = a.bodies
        /\ mcg' = [mcg EXCEPT !.ev = a.ev, !.ret = a.ret]
  /\ UNCHANGED <<disk, now, ixVars, hcVars, svcVars>>

\* Lines 322-342 of getMessageByNumber: the single-line read settles, or
\* the stream ends without a line and it never does.
McRead(c) ==
  /\ calls[c].pc = "read"
  /\ LET call == calls[c]
         off == call.cache.offsets[call.n]
         r == readLineAtOffset(disk, call.cache.filePath, off)
         bk == BodyKey(CacheKeyOf(call.key), call.n)
     IN CASE r.out = "pending" ->
               /\ calls' = [calls EXCEPT ![c] = [IdleCall EXCEPT !.pc = "hung"]]
               /\ UNCHANGED messageBodyCache
               /\ mcg' = Quiet
          [] r.out = "resolve" /\ Parses(r.line) ->
               LET set == MapSet(messageBodyCache, bk, BodyEntry(r.line, now, off))
               IN /\ messageBodyCache' = evictMessageCache(set)
                  /\ mcg' = [mcg EXCEPT !.ev = Evicted(set),
                             !.ret = Return(call, "message", r.line, FALSE, now, <<>>)]
                  /\ calls' = [calls EXCEPT ![c] = IdleCall]
          [] OTHER ->
               /\ calls' = [calls EXCEPT ![c] = IdleCall]
               /\ UNCHANGED messageBodyCache
               /\ mcg' = [mcg EXCEPT !.ev = NoEviction, !.ret = ReturnNull(call)]
  /\ UNCHANGED <<disk, sessionListCaches, now, ixVars, hcVars, svcVars>>

\* Lines 380-408 of getMessagesByRange: one awaited read settles; after the
\* last one the cache is evicted and the sorted messages are returned.
McRangeRead(c) ==
  /\ calls[c].pc = "rread"
  /\ LET call == calls[c]
         num == Head(call.todo)
         off == call.cache.offsets[num]
         r == readLineAtOffset(disk, call.cache.filePath, off)
         ok == r.out = "resolve" /\ Parses(r.line)
         e == BodyEntry(r.line, now, off)
         set == IF ok
                THEN MapSet(messageBodyCache, BodyKey(CacheKeyOf(call.key), num), e)
                ELSE messageBodyCache
         out == IF ok THEN Append(call.out, Item(num, e, now)) ELSE call.out
     IN IF r.out = "pending"
        THEN /\ calls' = [calls EXCEPT ![c] = [IdleCall EXCEPT !.pc = "hung"]]
             /\ UNCHANGED messageBodyCache
             /\ mcg' = Quiet
        ELSE IF Tail(call.todo) = <<>>
        THEN /\ messageBodyCache' = evictMessageCache(set)
             /\ mcg' = [mcg EXCEPT !.ev = Evicted(set),
                        !.ret = Return(call, "messages", BlankLine, FALSE, 0,
                                       SortedItems(out))]
             /\ calls' = [calls EXCEPT ![c] = IdleCall]
        ELSE /\ messageBodyCache' = set
             /\ mcg' = Quiet
             /\ calls' = [calls EXCEPT ![c].todo = Tail(call.todo),
                                       ![c].out = out]
  /\ UNCHANGED <<disk, sessionListCaches, now, ixVars, hcVars, svcVars>>

\* A caller gives up on a call whose promise never settles; the slot is
\* free for the next call.
McAbandon(c) ==
  /\ calls[c].pc = "hung"
  /\ calls' = [calls EXCEPT ![c] = IdleCall]
  /\ mcg' = Quiet
  /\ UNCHANGED <<disk, sessionListCaches, messageBodyCache, now, ixVars, hcVars, svcVars>>

McInvalidateCache(k) ==
  /\ sessionListCaches' = MapDelete(sessionListCaches, CacheKeyOf(k))
  /\ messageBodyCache' = DeletePrefixed(messageBodyCache, CacheKeyOf(k) \o <<":">>)
  /\ mcg' = Quiet
  /\ UNCHANGED <<disk, calls, now, ixVars, hcVars, svcVars>>

\* The clock moves on.
McTick ==
  /\ now < MaxNow
  /\ now' = now + 1
  /\ mcg' = Quiet
  /\ UNCHANGED <<disk, sessionListCaches, messageBodyCache, calls, ixVars, hcVars, svcVars>>

\* The CLI rewrites or extends a session file, or the file is removed.
McWrite(path, content) ==
  /\ disk[path].mtime < MaxDiskMtime
  /\ ~(disk[path].exists /\ disk[path].lines = content)
  /\ disk' = [disk EXCEPT ![path] = [exists |-> TRUE, lines |-> content,
                                     pend |-> 0, mtime |-> @.mtime + 1]]
  /\ mcg' = Quiet
  /\ UNCHANGED <<sessionListCaches, messageBodyCache, calls, now, ixVars, hcVars, svcVars>>

McDelete(path) ==
  /\ disk[path].exists
  /\ disk' = [disk EXCEPT ![path].exists = FALSE, ![path].lines = <<>>]
  /\ mcg' = Quiet
  /\ UNCHANGED <<sessionListCaches, messageBodyCache, calls, now, ixVars, hcVars, svcVars>>

\* The caches of a server that has served no message call.
McInit ==
  /\ disk = [q \in McPaths |->
               [exists |-> TRUE, lines |-> McFirst(q), pend |-> 0, mtime |-> 1]]
  /\ sessionListCaches = <<>>
  /\ messageBodyCache = <<>>
  /\ calls = [c \in Procs |-> IdleCall]
  /\ now = 0
  /\ mcg = InitMcg

\* The message access layer at rest, in the specifications of the indexer.
McRest ==
  /\ disk = [q \in McPaths |-> NoFile]
  /\ sessionListCaches = <<>>
  /\ messageBodyCache = <<>>
  /\ calls = [c \in Procs |-> IdleCall]
  /\ now = 0
  /\ mcg = InitMcg

\* The indexer at rest, in the specifications of the message access layer.
IxRest ==
  /\ files = [f \in Files |-> EmptyFile]
  /\ db = EmptyDb
  /\ pass = IdlePass
  /\ scan = ScanOff
  /\ g = InitG

\* ------------------------------------------------------ getMessageListFromDb
\* database.js: the rows of a session ordered by message_number, as number,
\* id, type and timestamp (null when the row has none).
getMessageListFromDb(d, sessionId) ==
  LET rows == {r \in d.message_index : r.session_id = sessionId}
      numbers == Ascending({r.message_number : r \in rows})
  IN [i \in 1..Len(numbers) |->
        LET row == CHOOSE r \in rows : r.message_number = numbers[i]
        IN [number |-> row.message_number, id |-> row.uuid, type |-> row.type,
            timestamp |-> IF row.timestamp = NullNum \/ row.timestamp = 0
                          THEN NullNum ELSE row.timestamp]]

\* ============================================================= history-cache
\* server/history-cache.js: the per-session cache of the prompts found in
\* the prompt log, the getSessionPrompts calls against it and the log.
HcMaxCachedSessions == 2
HISTORY_CACHE_TTL == 2
MaxLogLen == 2

HcSessions == {"a", "a:1", "b"}

\* A line of the log: a JSON object with display, timestamp and sessionId.
LogLine(sessionId, display, timestamp) ==
  [kind |-> "rec", sessionId |-> sessionId, display |-> display,
   timestamp |-> timestamp]

\* The lines the CLI appends while the server runs.
LogLines == {LogLine("a", "first", 2), LogLine("a", "second", 1)}

NoLog == [exists |-> FALSE, lines |-> <<>>, mtime |-> 0]

\* getFileMtime of history-cache.js: stats.mtimeMs, null when the stat throws.
HistoryMtime(log) == IF log.exists THEN log.mtime ELSE NullNum

\* parseHistoryEntry: ok is FALSE where it returns null.
parseHistoryEntry(line) ==
  [ok |-> /\ line.kind = "rec"
          /\ line.display # NullStr
          /\ line.timestamp # NullNum /\ line.timestamp # 0
          /\ line.sessionId # NullStr,
   prompt |-> line.display, timestamp |-> line.timestamp,
   sessionId |-> line.sessionId, rank |-> line.timestamp]

\* The entries of a session, sorted by timestamp; none when the log does
\* not exist.
streamEntriesForSession(log, sessionId) ==
  IF ~log.exists THEN <<>>
  ELSE LET parsed == [i \in 1..Len(log.lines) |-> parseHistoryEntry(log.lines[i])]
       IN SortByRank(SelectSeq(parsed,
                               LAMBDA e : e.ok /\ e.sessionId = sessionId))

Reinsert_inPlace(cache, sessionId, data) == MapSet(cache, sessionId, data)

\* sessionCache.delete(sessionId); sessionCache.set(sessionId, data)
Reinsert(cache, sessionId, data) ==
  Append(MapDelete(cache, sessionId), [key |-> sessionId, val |-> data])

\* The keys the while loop of touchSession deletes: the first of the Map
\* while its size is above the maximum.
HcEvictedKeys(cache) ==
  {cache[i].key : i \in 1..(Len(cache) - HcMaxCachedSessions)}

touchSession(cache, sessionId, data) ==
  LET set == Reinsert(cache, sessionId, data)
  IN SelectSeq(set, LAMBDA e : e.key \notin HcEvictedKeys(set))

\* A cached value: entries and timestamp as in the source; readMtime is the
\* log's mtime when the entries were read from it.
HcData(entries, t, readMtime) ==
  [entries |-> entries, timestamp |-> t, readMtime |-> readMtime]

\* detected, since: when the call was made the log's mtime, since, was the
\* one checkFileChanged had last seen; kept until the call's stat resolves.
IdlePrompts ==
  [pc |-> "idle", sessionId |-> "a", entries |-> <<>>, readMtime |-> NullNum,
   detected |-> FALSE, since |-> NullNum]

HcNoReturn ==
  [kind |-> "none", sessionId |-> "a", entries |-> <<>>, hit |-> FALSE,
   readMtime |-> NullNum, cleared |-> FALSE]

HcReturn(sessionId, entries, hit, readMtime) ==
  [kind |-> "entries", sessionId |-> sessionId, entries |-> entries,
   hit |-> hit, readMtime |-> readMtime, cleared |-> FALSE]

HcNoEviction == [gone |-> {}, kept |-> {}]

\* The sessions in the order of their last cache access by a
\* getSessionPrompts call, the oldest first.
Accessed(recent, sessionId) ==
  Append(SelectSeq(recent, LAMBDA s : s # sessionId), sessionId)

\* History of the last step: nothing returned, nothing evicted.
HcQuiet == [hg EXCEPT !.ret = HcNoReturn, !.ev = HcNoEviction]

\* touchSession and the return of the call, with what they leave in hg.
HcFinish(c, cache, sessionId, data, hit) ==
  LET set == Reinsert(cache, sessionId, data)
  IN /\ sessionCache' = touchSession(cache, sessionId, data)
     /\ hcalls' = [hcalls EXCEPT ![c] = IdlePrompts]
     /\ hg' = [ret |-> HcReturn(sessionId, data.entries, hit, data.readMtime),
               ev |-> [gone |-> HcEvictedKeys(set),
                       kept |-> {set[i].key : i \in 1..Len(set)}
                                  \ HcEvictedKeys(set)],
               recent |-> Accessed(hg.recent, sessionId)]

\* getSessionPrompts up to its first await.
HcBegin(c, sessionId) ==
  /\ hcalls[c].pc = "idle"
  /\ hcalls' = [hcalls EXCEPT ![c] =
                  [IdlePrompts EXCEPT
                     !.pc = "stat", !.sessionId = sessionId,
                     !.detected = lastFileMtime = HistoryMtime(hlog),
                     !.since = IF lastFileMtime = HistoryMtime(hlog)
                               THEN lastFileMtime ELSE NullNum]]
  /\ hg' = HcQuiet
  /\ UNCHANGED <<hlog, sessionCache, lastFileMtime>>

\* Lines 169-178: the stat of checkFileChanged resolves, the cache is
\* cleared when the mtime differs, and a valid cached value is returned.
HcStatStep(c) ==
  /\ hcalls[c].pc = "stat"
  /\ LET currentMtime == HistoryMtime(hlog)
         changed == currentMtime # lastFileMtime
         cache == IF changed THEN <<>> ELSE sessionCache
         sid == hcalls[c].sessionId
     IN /\ lastFileMtime' = currentMtime
        /\ IF MapHas(cache, sid)
              /\ now - MapGet(cache, sid).timestamp < HISTORY_CACHE_TTL
           THEN HcFinish(c, cache, sid, MapGet(cache, sid), TRUE)
           ELSE /\ sessionCache' = cache
                /\ hcalls' = [hcalls EXCEPT ![c].pc = "scan",
                                             ![c].detected = FALSE,
                                             ![c].since = NullNum]
                /\ hg' = [HcQuiet EXCEPT !.ret.cleared = changed]
  /\ UNCHANGED hlog

\* Lines 125-145: the stream reads the log; without a log the call caches
\* and returns the empty list at once.
HcScanStep(c) ==
  /\ hcalls[c].pc = "scan"
  /\ LET sid == hcalls[c].sessionId
         entries == streamEntriesForSession(hlog, sid)
     IN IF ~hlog.exists
        THEN HcFinish(c, sessionCache, sid, HcData(entries, now, NullNum), FALSE)
        ELSE /\ hcalls' = [hcalls EXCEPT ![c].pc = "end",
                                         ![c].entries = entries,
                                         ![c].readMtime = hlog.mtime]
             /\ hg' = HcQuiet
             /\ UNCHANGED sessionCache
  /\ UNCHANGED <<hlog, lastFileMtime>>

\* Lines 148-189: the stream has ended; the entries are sorted, cached and
\* returned.
HcEndStep(c) ==
  /\ hcalls[c].pc = "end"
  /\ HcFinish(c, sessionCache, hcalls[c].sessionId,
              HcData(hcalls[c].entries, now, hcalls[c].readMtime), FALSE)
  /\ UNCHANGED <<hlog, lastFileMtime>>

\* The CLI appends a prompt to the log.
HcAppend(line) ==
  /\ Len(hlog.lines) < MaxLogLen
  /\ hlog' = [exists |-> TRUE, lines |-> Append(hlog.lines, line),
              mtime |-> hlog.mtime + 1]
  /\ hg' = HcQuiet
  /\ UNCHANGED <<sessionCache, lastFileMtime, hcalls>>

\* invalidateCache of history-cache.js.
HcInvalidateCache ==
  /\ sessionCache' = <<>>
  /\ lastFileMtime' = NullNum
  /\ hg' = HcQuiet
  /\ UNCHANGED <<hlog, hcalls>>

\* The clock moves on.
HcTick ==
  /\ now < MaxNow
  /\ now' = now + 1
  /\ hg' = HcQuiet
  /\ UNCHANGED <<hlog, sessionCache, lastFileMtime, hcalls>>
  /\ UNCHANGED <<disk, sessionListCaches, messageBodyCache, calls, mcg, ixVars, svcVars>>

\* getSessionPrompts called by the routes.
HcGetSessionPrompts(c, sessionId) ==
  HcBegin(c, sessionId) /\ UNCHANGED <<mcVars, ixVars, svcVars>>

HcStat(c) == HcStatStep(c) /\ UNCHANGED <<mcVars, ixVars, svcVars>>

HcScan(c) == HcScanStep(c) /\ UNCHANGED <<mcVars, ixVars, svcVars>>

HcEnd(c) == HcEndStep(c) /\ UNCHANGED <<mcVars, ixVars, svcVars>>

\* The history cache of a server that has served no call, before the log
\* exists.
HcRest ==
  /\ hlog = NoLog
  /\ sessionCache = <<>>
  /\ lastFileMtime = NullNum
  /\ hcalls = [c \in Procs |-> IdlePrompts]
  /\ hg = [ret |-> HcNoReturn, ev |-> HcNoEviction, recent |-> <<>>]

\* ------------------------------------------------------------ getMessageList
\* getMessageList of messages-cache.js: getSessionListCache, then
\* getSessionPrompts of the history cache, then the returned object.
McGetMessageList(c, k) ==
  /\ calls[c].pc = "idle"
  /\ calls' = [calls EXCEPT ![c] = NewCall("mlist", k, 0, 0, FALSE)]
  /\ mcg' = Quiet
  /\ UNCHANGED <<disk, sessionListCaches, messageBodyCache, now, ixVars, hcVars, svcVars>>

\* Line 276: getSessionPrompts(sessionId) is called and runs to its stat.
MlPrompts(c) ==
  /\ calls[c].pc = "prompts"
  /\ HcBegin(c, calls[c].key.session)
  /\ calls' = [calls EXCEPT ![c].pc = "history"]
  /\ mcg' = Quiet
  /\ UNCHANGED <<disk, sessionListCaches, messageBodyCache, now, ixVars, svcVars>>

\* Lines 277-293 once getSessionPrompts has returned; until then the call
\* stays where it is.
MlContinue(c) ==
  /\ IF hg'.ret.kind = "entries"
     THEN LET listing == MessageListing(calls[c].cache, hg'.ret.entries)
          IN /\ calls' = [calls EXCEPT ![c] = IdleCall]
             /\ mcg' = [mcg EXCEPT
                          !.ev = NoEviction,
                          !.ret = [Return(calls[c], "listing", BlankLine, FALSE,
                                          0, <<>>) EXCEPT !.listing = listing],
                          !.listed[calls[c].key] = listing]
     ELSE /\ UNCHANGED calls
          /\ mcg' = Quiet
  /\ UNCHANGED <<disk, sessionListCaches, messageBodyCache, now, ixVars, svcVars>>

MlStat(c) == calls[c].pc = "history" /\ HcStatStep(c) /\ MlContinue(c)

MlScan(c) == calls[c].pc = "history" /\ HcScanStep(c) /\ MlContinue(c)

MlEnd(c) == calls[c].pc = "history" /\ HcEndStep(c) /\ MlContinue(c)

\* The history cache of a server that has served no call, with a log that
\* holds two prompts of session a.
MlLog ==
  [exists |-> TRUE, lines |-> <<LogLine("a", "first", 2), LogLine("a", "second", 1)>>,
   mtime |-> 1]

MlInit ==
  /\ hlog = MlLog
  /\ sessionCache = <<>>
  /\ lastFileMtime = NullNum
  /\ hcalls = [c \in Procs |-> IdlePrompts]
  /\ hg = [ret |-> HcNoReturn, ev |-> HcNoEviction, recent |-> <<>>]

\* ======================================================= orchestrator client
\* server/orchestrator/client.js: the OrchestratorClient object in
\* authenticated mode (a token is configured), its WebSocket objects and its
\* timers. A timer that is pending may fire at any moment, so the lengths of
\* the timeouts (currentReconnectInterval and its backoff among them) are
\* left out. connect() awaits resolveToken(), which does no I/O: nothing but
\* the caller's own code runs before connectWithToken, and connect is one
\* step.
MaxSockets == 3
MaxTimers == 3
maxReconnectAttempts == 2

Sockets == 1..MaxSockets
TimerIds == 1..MaxTimers

\* The object the constructor leaves (lines 86-105); ws and reconnectTimer 0
\* stand for null. socks is the readyState of every WebSocket created so
\* far ("none": not created; "closing": closed or terminated by the client,
\* its 'close' event not yet emitted); timers are the pending reconnect
\* timeouts.
NewClient ==
  [ws |-> 0, socks |-> [s \in Sockets |-> "none"],
   reconnectAttempts |-> 0, reconnectTimer |-> 0, timers |-> {},
   heartbeatTimer |-> FALSE, heartbeatTimeoutTimer |-> FALSE,
   wakeCheckTimer |-> FALSE,
   isConnected |-> FALSE, isRegistered |-> FALSE, shouldReconnect |-> TRUE]

\* counted: how many times reconnectAttempts was incremented for the loss of
\* each socket; quiet: the owner has not called connect() since the client
\* was made or since disconnect() was last called by the owner or by a
\* DISCONNECT command.
NewHistory == [counted |-> [s \in Sockets |-> 0], quiet |-> TRUE]

FreeSockets(c) == {s \in Sockets : c.socks[s] = "none"}

FreeTimers(c) == {t \in TimerIds : t \notin c.timers /\ t # c.reconnectTimer}

Least(S) == CHOOSE x \in S : \A y \in S : x <= y

\* ws.close() and ws.terminate(): the socket's 'close' event follows later.
Closed(state) ==
  IF state \in {"connecting", "open"} THEN "closing" ELSE state

stopHeartbeat(c) ==
  [c EXCEPT !.heartbeatTimer = FALSE, !.heartbeatTimeoutTimer = FALSE]

stopWakeDetection(c) == [c EXCEPT !.wakeCheckTimer = FALSE]

clearReconnectTimer(c) ==
  IF c.reconnectTimer # 0
  THEN [c EXCEPT !.timers = @ \ {c.reconnectTimer}, !.reconnectTimer = 0]
  ELSE c

\* scheduleReconnect gets as far as reconnectAttempts++.
Schedules(c) ==
  c.shouldReconnect /\ c.reconnectAttempts < maxReconnectAttempts

\* Lines 1342-1371: the new timeout replaces the handle in reconnectTimer;
\* a timeout that was pending stays pending.
scheduleReconnect(c) ==
  IF ~Schedules(c) THEN c
  ELSE LET t == Least(FreeTimers(c))
       IN [c EXCEPT !.reconnectAttempts = @ + 1,
                    !.reconnectTimer = t, !.timers = @ \cup {t}]

\* Lines 410-424.
disconnect(c) ==
  LET c1 == clearReconnectTimer(stopWakeDetection(stopHeartbeat(
               [c EXCEPT !.shouldReconnect = FALSE])))
      c2 == IF c1.ws # 0
            THEN [c1 EXCEPT !.socks[c1.ws] = Closed(@), !.ws = 0]
            ELSE c1
  IN [c2 EXCEPT !.isConnected = FALSE, !.isRegistered = FALSE]

\* Lines 1242-1262: forceReconnect up to its emit.
Terminated(c) ==
  LET c1 == stopWakeDetection(stopHeartbeat(
               [c EXCEPT !.isConnected = FALSE, !.isRegistered = FALSE]))
  IN IF c1.ws # 0
     THEN [c1 EXCEPT !.socks[c1.ws] = Closed(@), !.ws = 0]
     ELSE c1

\* Lines 1242-1271.
forceReconnect(c) == scheduleReconnect(Terminated(c))

\* Lines 183-198: a new WebSocket becomes this.ws; the socket that was
\* there keeps its listeners.
connectWithToken(c) ==
  LET s == Least(FreeSockets(c))
  IN [c EXCEPT !.shouldReconnect = TRUE, !.ws = s, !.socks[s] = "connecting"]

IsOpen(c) == c.ws # 0 /\ c.socks[c.ws] = "open"

\* Lines 146-176.
connect(c) == IF IsOpen(c) THEN c ELSE connectWithToken(c)

\* The 'close' listener of lines 222-235, up to its emit.
CloseHandled(c, s) ==
  stopHeartbeat([c EXCEPT !.socks[s] = "closed",
                          !.isConnected = FALSE, !.isRegistered = FALSE])

\* The model has a timer id, and a socket, left for the handler.
CanSchedule(c) == Schedules(c) => FreeTimers(c) # {}
CanConnect(c) == IsOpen(c) \/ FreeSockets(c) # {}

Counted(h, s, c) ==
  IF s # 0 /\ Schedules(c) THEN [h EXCEPT !.counted[s] = @ + 1] ELSE h

\* The owner calls connect() on a client it has made or disconnected.
OcConnect ==
  /\ og.quiet
  /\ CanConnect(oc)
  /\ oc' = connect(oc)
  /\ og' = [og EXCEPT !.quiet = FALSE]
  /\ UNCHANGED <<ixVars, mcVars, hcVars, det, dg, rt>>

\* The owner calls disconnect().
OcDisconnect ==
  /\ oc' = disconnect(oc)
  /\ og' = [og EXCEPT !.quiet = TRUE]
  /\ UNCHANGED <<ixVars, mcVars, hcVars, det, dg, rt>>

\* 'open' on socket s (lines 207-216).
OcOpen(s) ==
  /\ oc.socks[s] = "connecting"
  /\ oc' = [oc EXCEPT !.socks[s] = "open", !.isConnected = TRUE,
                      !.reconnectAttempts = 0]
  /\ UNCHANGED <<og, ixVars, mcVars, hcVars, det, dg, rt>>

\* A REGISTERED message on socket s (lines 615-636).
OcRegistered(s, success) ==
  /\ oc.socks[s] = "open"
  /\ oc' = IF success
           THEN [oc EXCEPT !.isRegistered = TRUE, !.heartbeatTimer = TRUE,
                           !.heartbeatTimeoutTimer = FALSE,
                           !.wakeCheckTimer = TRUE]
           ELSE disconnect(oc)
  /\ UNCHANGED <<og, ixVars, mcVars, hcVars, det, dg, rt>>

\* A DISCONNECT command on socket s (lines 652-660).
OcCommandDisconnect(s) ==
  /\ oc.socks[s] = "open"
  /\ oc' = disconnect([oc EXCEPT !.shouldReconnect = FALSE])
  /\ og' = [og EXCEPT !.quiet = TRUE]
  /\ UNCHANGED <<ixVars, mcVars, hcVars, det, dg, rt>>

\* The heartbeat interval fires: sendPing (lines 477-495).
OcPing ==
  /\ oc.heartbeatTimer
  /\ oc' = [oc EXCEPT !.heartbeatTimeoutTimer = TRUE]
  /\ UNCHANGED <<og, ixVars, mcVars, hcVars, det, dg, rt>>

\* A PONG message on socket s (lines 641-646).
OcPong(s) ==
  /\ oc.socks[s] = "open"
  /\ oc.heartbeatTimeoutTimer
  /\ oc' = [oc EXCEPT !.heartbeatTimeoutTimer = FALSE]
  /\ UNCHANGED <<og, ixVars, mcVars, hcVars, det, dg, rt>>

\* The heartbeat timeout fires (lines 489-494).
OcHeartbeatTimeout ==
  /\ oc.heartbeatTimeoutTimer
  /\ CanSchedule(Terminated(oc))
  /\ oc' = forceReconnect(oc)
  /\ og' = Counted(og, oc.ws, Terminated(oc))
  /\ UNCHANGED <<ixVars, mcVars, hcVars, det, dg, rt>>

\* The wake check finds its interval overdue (lines 1305-1328).
OcWake ==
  /\ oc.wakeCheckTimer
  /\ oc.isConnected /\ oc.ws # 0
  /\ CanSchedule(Terminated(oc))
  /\ oc' = forceReconnect(oc)
  /\ og' = Counted(og, oc.ws, Terminated(oc))
  /\ UNCHANGED <<ixVars, mcVars, hcVars, det, dg, rt>>

\* 'close' on socket s (lines 222-241): the network dropped it, or the
\* client closed or terminated it earlier.
OcClose(s) ==
  /\ oc.socks[s] \in {"connecting", "open", "closing"}
  /\ CanSchedule(CloseHandled(oc, s))
  /\ oc' = scheduleReconnect(CloseHandled(oc, s))
  /\ og' = Counted(og, s, CloseHandled(oc, s))
  /\ UNCHANGED <<ixVars, mcVars, hcVars, det, dg, rt>>

\* The reconnect timeout t fires (lines 1358-1364).
OcTimer(t) ==
  /\ t \in oc.timers
  /\ CanConnect(oc)
  /\ oc' = connect([oc EXCEPT !.timers = @ \ {t}])
  /\ UNCHANGED <<og, ixVars, mcVars, hcVars, det, dg, rt>>

OcRest == oc = NewClient /\ og = NewHistory

\* ================================================== external session detector
\* server/external-session-detector.js: the session.lock files of the
\* project directories, the processes of the machine, and the process scan
\* that process-cache.js keeps (getCachedProcessData). Paths are sequences
\* of characters; the empty sequence is a missing cwd.
OwnPid == 1
ForeignPids == {2}

DetProjects == {<<"p">>, <<"q">>}

NoLock == [kind |-> "none", pid |-> 0, app |-> NullStr, sessionId |-> NullStr]

\* The file createSessionLock writes (lines 160-167).
OwnLock(sessionId) ==
  [kind |-> "json", pid |-> OwnPid, app |-> "claudecodeui",
   sessionId |-> sessionId]

\* What another program leaves in session.lock: a JSON object with its pid,
\* one without a pid, or text that is no JSON.
ForeignLocks ==
  {[kind |-> "json", pid |-> q, app |-> NullStr, sessionId |-> NullStr] :
     q \in ForeignPids \cup {0}}
  \cup {[kind |-> "raw", pid |-> 0, app |-> NullStr, sessionId |-> NullStr]}

\* The entries a process scan can hold for a live foreign process.
ScanEntries(alive) ==
  {[pid |-> q, cwd |-> w] : q \in alive, w \in {<<>>, <<"p">>, <<"q">>}}

\* process.kill(pid, 0)
processExists(d, pid) == pid = OwnPid \/ pid \in d.alive

\* checkSessionLockFile (lines 45-80): the answer, and the lock file after
\* the removal of a stale lock.
checkSessionLockFile(d, projectPath) ==
  LET l == d.lock[projectPath]
  IN IF l.kind = "none" THEN [exists |-> FALSE, content |-> NoLock, lock |-> l]
     ELSE IF l.kind = "json" /\ l.pid # 0 /\ ~processExists(d, l.pid)
     THEN [exists |-> FALSE, content |-> NoLock, lock |-> NoLock]
     ELSE [exists |-> TRUE, content |-> l, lock |-> l]

\* detectExternalClaude (lines 89-141).
detectExternalClaude(d, projectPath) ==
  LET processes == {q \in d.processes :
                      q.cwd = <<>> \/ StartsWith(q.cwd, projectPath)}
      lockFile == checkSessionLockFile(d, projectPath)
  IN [kind |-> "result", projectPath |-> projectPath,
      processes |-> processes, tmuxSessions |-> d.tmuxSessions,
      lockFile |-> [exists |-> lockFile.exists, content |-> lockFile.content],
      hasExternalSession |-> \/ processes # {}
                             \/ d.tmuxSessions # {}
                             \/ lockFile.exists]

NoDetection ==
  [kind |-> "none", projectPath |-> <<>>, processes |-> {},
   tmuxSessions |-> {}, lockFile |-> [exists |-> FALSE, content |-> NoLock],
   hasExternalSession |-> FALSE]

DetDetect(projectPath) ==
  /\ dg' = detectExternalClaude(det, projectPath)
  /\ det' = [det EXCEPT
               !.lock[projectPath] = checkSessionLockFile(det, projectPath).lock]
  /\ UNCHANGED <<ixVars, mcVars, hcVars, oc, og, rt>>

\* createSessionLock (lines 149-173).
DetCreateSessionLock(projectPath, sessionId) ==
  /\ det' = [det EXCEPT !.lock[projectPath] = OwnLock(sessionId)]
  /\ dg' = NoDetection
  /\ UNCHANGED <<ixVars, mcVars, hcVars, oc, og, rt>>

\* removeSessionLock (lines 180-192).
DetRemoveSessionLock(projectPath) ==
  /\ det' = [det EXCEPT !.lock[projectPath] = NoLock]
  /\ dg' = NoDetection
  /\ UNCHANGED <<ixVars, mcVars, hcVars, oc, og, rt>>

\* Another program writes a session.lock.
DetForeignLock(projectPath, l) ==
  /\ det' = [det EXCEPT !.lock[projectPath] = l]
  /\ dg' = NoDetection
  /\ UNCHANGED <<ixVars, mcVars, hcVars, oc, og, rt>>

\* A foreign process starts or exits.
DetForeignProcess(q) ==
  /\ det' = [det EXCEPT !.alive = IF q \in @ THEN @ \ {q} ELSE @ \cup {q}]
  /\ dg' = NoDetection
  /\ UNCHANGED <<ixVars, mcVars, hcVars, oc, og, rt>>

\* process-cache.js renews its scan of Claude processes and tmux sessions.
DetScan ==
  /\ \E ps \in SUBSET ScanEntries(det.alive) : \E ts \in SUBSET {"tmux"} :
       det' = [det EXCEPT !.processes = ps, !.tmuxSessions = ts]
  /\ dg' = NoDetection
  /\ UNCHANGED <<ixVars, mcVars, hcVars, oc, og, rt>>

DetRest ==
  /\ det = [lock |-> [q \in DetProjects |-> NoLock], alive |-> {},
            processes |-> {}, tmuxSessions |-> {}]
  /\ dg = NoDetection

\* ============================================================ sessions route
\* server/routes/sessions.js: GET /api/sessions/list over the sessions of
\* the index store. The clock counts minutes; last_activity values are in
\* the same unit. The md5 digest is taken to be as good as its input,
\* and the order of the rows (ORDER BY last_activity DESC) and the LIMITs
\* of 1000 and 10000 rows are left out.
RtMaxNow == 2
OneHour == 1

Timeframes == {"1h", "all"}

\* TIMEFRAME_MS[timeframe], null for Infinity (lines 23-31, 52-53).
TimeframMs(timeframe) == IF timeframe = "all" THEN NullNum ELSE OneHour

\* getSessions of database.js: the rows within the timeframe, joined with
\* their project.
getSessions(d, timeframMs, t) ==
  {[id |-> r.id, projectName |-> r.project_name, summary |-> r.summary,
    messageCount |-> r.message_count,
    lastActivity |-> IF r.last_activity = NullNum \/ r.last_activity = 0
                     THEN NullNum ELSE r.last_activity,
    cwd |-> r.cwd, provider |-> r.provider,
    projectDisplayName |->
      IF \E q \in d.projects : q.name = r.project_name
      THEN (CHOOSE q \in d.projects : q.name = r.project_name).display_name
      ELSE NullStr,
    projectFullPath |->
      IF \E q \in d.projects : q.name = r.project_name
      THEN (CHOOSE q \in d.projects : q.name = r.project_name).full_path
      ELSE NullStr] :
   r \in {x \in d.sessions :
            \/ timeframMs = NullNum
            \/ x.last_activity # NullNum /\ x.last_activity >= t - timeframMs}}

\* The sessions of the response body (lines 79-93).
SessionsPayload(sessionsRaw) ==
  {[id |-> s.id,
    summary |-> IF s.summary = NullStr THEN "New Session" ELSE s.summary,
    lastActivity |-> s.lastActivity,
    messageCount |-> s.messageCount,
    provider |-> IF s.provider = NullStr THEN "claude" ELSE s.provider,
    cwd |-> s.cwd,
    project |-> [name |-> s.projectName,
                 displayName |-> IF s.projectDisplayName = NullStr
                                 THEN s.projectName ELSE s.projectDisplayName,
                 fullPath |-> s.projectFullPath]] : s \in sessionsRaw}

\* The string the ETag is the digest of (lines 60-67).
ETagOf(filteredCount, totalCount, minuteTimestamp, timeframe) ==
  <<filteredCount, totalCount, minuteTimestamp, timeframe>>

NoETag == <<>>

NoResponse == [status |-> 0, etag |-> NoETag, sessions |-> {}, timeframe |-> "all"]

\* The handler of lines 44-110 for a client that sends the ETag it holds
\* (conditional) or none; a client keeps the body and the ETag of a 200.
RtGet(timeframe, conditional) ==
  /\ LET sessionsRaw == getSessions(db, TimeframMs(timeframe), rt.now)
         totalCount == Cardinality(getSessions(db, NullNum, rt.now))
         currentETag == ETagOf(Cardinality(sessionsRaw), totalCount, rt.now,
                               timeframe)
         clientETag == IF conditional THEN rt.held.etag ELSE NoETag
     IN IF clientETag # NoETag /\ clientETag = currentETag
        THEN rt' = [rt EXCEPT !.resp = [status |-> 304, etag |-> NoETag,
                                        sessions |-> {},
                                        timeframe |-> timeframe]]
        ELSE rt' = [rt EXCEPT
                      !.resp = [status |-> 200, etag |-> currentETag,
                                sessions |-> SessionsPayload(sessionsRaw),
                                timeframe |-> timeframe],
                      !.held = [etag |-> currentETag,
                                sessions |-> SessionsPayload(sessionsRaw)]]
  /\ UNCHANGED <<ixVars, mcVars, hcVars, oc, og, det, dg>>

\* A minute passes.
RtTick ==
  /\ rt.now < RtMaxNow
  /\ rt' = [rt EXCEPT !.now = @ + 1]
  /\ UNCHANGED <<ixVars, mcVars, hcVars, oc, og, det, dg>>

RtRest ==
  rt = [now |-> 0, resp |-> NoResponse, held |-> [etag |-> NoETag, sessions |-> {}]]

SvcRest == OcRest /\ DetRest /\ RtRest

\* ------------------------------------------------------------ specifications
\* Spec: one transcript, its writer and indexFile calls.
SpecFiles == {"a"}

Init ==
  /\ files = [f \in Files |-> EmptyFile]
  /\ db = EmptyDb
  /\ pass = IdlePass
  /\ scan = ScanOff
  /\ g = InitG
  /\ McRest
  /\ HcRest
  /\ SvcRest

Writer ==
  \E f \in SpecFiles :
    \/ \E ln \in WriterLines : AppendLine(f, ln)
    \/ \E ln \in PartialLines : AppendPartial(f, ln)
    \/ CompleteLine(f)
    \/ TruncateFile(f)

Next ==
  \/ Writer /\ UNCHANGED <<mcVars, hcVars, svcVars>>
  \/ \E f \in SpecFiles : IndexFile(f) /\ UNCHANGED <<mcVars, hcVars, svcVars>>
  \/ PassRead /\ UNCHANGED <<mcVars, hcVars, svcVars>>
  \/ PassFinish /\ UNCHANGED <<mcVars, hcVars, svcVars>>

Spec == Init /\ [][Next]_vars

\* SpecCrash: the same with a writer of whole message lines, and a server
\* that may die inside a pass and be started again.
CrashLines == {RecUser, RecAsst}

NextCrash ==
  \/ \E f \in SpecFiles, ln \in CrashLines : AppendLine(f, ln) /\ UNCHANGED <<mcVars, hcVars, svcVars>>
  \/ \E f \in SpecFiles : TruncateFile(f) /\ UNCHANGED <<mcVars, hcVars, svcVars>>
  \/ \E f \in SpecFiles : IndexFile(f) /\ UNCHANGED <<mcVars, hcVars, svcVars>>
  \/ PassRead /\ UNCHANGED <<mcVars, hcVars, svcVars>>
  \/ PassFinish /\ UNCHANGED <<mcVars, hcVars, svcVars>>
  \/ Crash /\ UNCHANGED <<mcVars, hcVars, svcVars>>

SpecCrash == Init /\ [][NextCrash]_vars

\* SpecProject: indexProject scans of a directory of two transcripts, with
\* failing stats, streams and store calls.
ContentsOf(f) ==
  IF f = "a" THEN {<<>>, <<RecUser>>, <<RecUser, RecSummary, RecAsst>>}
  ELSE {<<>>, <<RecOther>>}

InitProject ==
  /\ files \in {fs \in [Files -> {[lines |-> l, pend |-> 0, mtime |-> 1] :
                                    l \in ContentsOf("a") \cup ContentsOf("b")}] :
                  \A f \in Files : fs[f].lines \in ContentsOf(f)}
  /\ db = EmptyDb
  /\ pass = IdlePass
  /\ scan = ScanOff
  /\ g = InitG
  /\ McRest
  /\ HcRest
  /\ SvcRest

NextProject ==
  \/ ScanStart /\ UNCHANGED <<mcVars, hcVars, svcVars>>
  \/ ScanStartThrow /\ UNCHANGED <<mcVars, hcVars, svcVars>>
  \/ ScanCall /\ UNCHANGED <<mcVars, hcVars, svcVars>>
  \/ ScanCallThrow /\ UNCHANGED <<mcVars, hcVars, svcVars>>
  \/ ScanCollect /\ UNCHANGED <<mcVars, hcVars, svcVars>>
  \/ ScanFinish /\ UNCHANGED <<mcVars, hcVars, svcVars>>
  \/ ScanFinishThrow /\ UNCHANGED <<mcVars, hcVars, svcVars>>
  \/ PassRead /\ UNCHANGED <<mcVars, hcVars, svcVars>>
  \/ PassFinish /\ UNCHANGED <<mcVars, hcVars, svcVars>>
  \/ PassThrow /\ UNCHANGED <<mcVars, hcVars, svcVars>>
  \/ PassWriteThrow /\ UNCHANGED <<mcVars, hcVars, svcVars>>

SpecProject == InitProject /\ [][NextProject]_vars

\* SpecCache: the message access layer within one tick of the clock: a
\* caller of messages, a caller of lists and the writer of a session file.
InitCache == IxRest /\ McInit /\ HcRest /\ SvcRest

NextCache ==
  \/ \E c \in MessageCallers, k \in McKeys, n \in McNumbers :
       McGetMessageByNumber(c, k, n)
  \/ \E c \in MessageCallers, k \in McKeys, r \in McRanges :
       McGetMessagesByRange(c, k, r)
  \/ \E c \in ListCallers, k \in McKeys, force \in BOOLEAN :
       McGetSessionListCache(c, k, force)
  \/ \E c \in Procs : McStat(c)
  \/ \E c \in Procs : McBuild(c)
  \/ \E c \in Procs : McRead(c)
  \/ \E c \in Procs : McRangeRead(c)
  \/ \E c \in Procs : McAbandon(c)
  \/ \E k \in McKeys : McInvalidateCache(k)
  \/ \E q \in McWritten : \E l \in McContents(q) : McWrite(q, l)
  \/ \E q \in McWritten : McDelete(q)

SpecCache == InitCache /\ [][NextCache]_allVars

\* SpecCacheFair: getMessageByNumber calls against a file that is rewritten;
\* every await of a call whose promise can settle is resumed in the end.
NextCacheFair ==
  \/ \E c \in MessageCallers, k \in McKeys, n \in 1..2 :
       McGetMessageByNumber(c, k, n)
  \/ \E c \in MessageCallers : McStat(c)
  \/ \E c \in MessageCallers : McBuild(c)
  \/ \E c \in MessageCallers : McRead(c)
  \/ \E q \in McWritten : \E l \in McContents(q) : McWrite(q, l)

SpecCacheFair ==
  /\ InitCache
  /\ [][NextCacheFair]_allVars
  /\ \A c \in MessageCallers :
       /\ WF_allVars(McStat(c))
       /\ WF_allVars(McBuild(c))
       /\ WF_allVars(McRead(c))

\* SpecCacheClock: one caller of messages over unchanging files while the
\* clock runs.
NextCacheClock ==
  \/ \E c \in MessageCallers, k \in McKeys, n \in McNumbers :
       McGetMessageByNumber(c, k, n)
  \/ \E c \in MessageCallers, k \in McKeys, r \in McRanges :
       McGetMessagesByRange(c, k, r)
  \/ \E c \in MessageCallers : McStat(c)
  \/ \E c \in MessageCallers : McBuild(c)
  \/ \E c \in MessageCallers : McRead(c)
  \/ \E c \in MessageCallers : McRangeRead(c)
  \/ McTick

SpecCacheClock == InitCache /\ [][NextCacheClock]_allVars

\* SpecStore: upsertSession calls of any caller on one session row.
MaxCount == 2
MaxStamp == 2

StoreSummaries == {NullStr, "New Session", "S1"}
StoreCwds == {NullStr, "/w", "/x"}
StorePaths == {NullStr, "f1", "f2"}
StoreStamps == {NullNum} \cup 1..MaxStamp

\* The session objects passed to upsertSession.
StoreSessions ==
  [id : {"a"}, projectName : {ProjectName}, summary : StoreSummaries,
   messageCount : 0..MaxCount, lastActivity : StoreStamps, cwd : StoreCwds,
   provider : {"claude"}, filePath : StorePaths]

\* The values bound by .run(): session.summary || "New Session", and the
\* other fields, whose absent values are null already.
BoundSession(session) ==
  [session EXCEPT !.summary = IF @ = NullStr THEN "New Session" ELSE @]

StoreUpsertSession(session) ==
  /\ db' = upsertSession(db, BoundSession(session))
  /\ g' = [g EXCEPT !.lowered =
             \E x \in db.sessions :
               /\ x.id = session.id
               /\ session.messageCount < x.message_count
               /\ session.lastActivity # NullNum
               /\ session.lastActivity < x.last_activity]
  /\ UNCHANGED <<files, pass, scan>>

NextStore == \E session \in StoreSessions : StoreUpsertSession(session) /\ UNCHANGED <<mcVars, hcVars, svcVars>>

SpecStore == Init /\ [][NextStore]_vars

\* SpecHistory: two callers of getSessionPrompts and the CLI appending to
\* the log, within one tick of the clock.
NextHistory ==
  \/ \E c \in Procs, s \in HcSessions : HcGetSessionPrompts(c, s)
  \/ \E c \in Procs : HcStat(c)
  \/ \E c \in Procs : HcScan(c)
  \/ \E c \in Procs : HcEnd(c)
  \/ \E line \in LogLines : HcAppend(line) /\ UNCHANGED <<mcVars, ixVars, svcVars>>

SpecHistory == Init /\ [][NextHistory]_allVars

\* SpecHistoryClock: one caller of getSessionPrompts while the log grows,
\* the clock runs and the cache is invalidated.
HistoryCallers == {1}

NextHistoryClock ==
  \/ \E c \in HistoryCallers, s \in HcSessions : HcGetSessionPrompts(c, s)
  \/ \E c \in HistoryCallers : HcStat(c)
  \/ \E c \in HistoryCallers : HcScan(c)
  \/ \E c \in HistoryCallers : HcEnd(c)
  \/ \E line \in LogLines : HcAppend(line) /\ UNCHANGED <<mcVars, ixVars, svcVars>>
  \/ HcInvalidateCache /\ UNCHANGED <<mcVars, ixVars, svcVars>>
  \/ HcTick

SpecHistoryClock == Init /\ [][NextHistoryClock]_allVars

\* SpecMessageList: one caller of getMessageList over session files and a
\* prompt log that do not change, while the clock runs.
InitMessageList == IxRest /\ McInit /\ MlInit /\ SvcRest

NextMessageList ==
  \/ \E c \in MessageCallers, k \in McKeys : McGetMessageList(c, k)
  \/ \E c \in MessageCallers : McStat(c)
  \/ \E c \in MessageCallers : McBuild(c)
  \/ \E c \in MessageCallers : MlPrompts(c)
  \/ \E c \in MessageCallers : MlStat(c)
  \/ \E c \in MessageCallers : MlScan(c)
  \/ \E c \in MessageCallers : MlEnd(c)
  \/ McTick

SpecMessageList == InitMessageList /\ [][NextMessageList]_allVars

\* SpecAppend: one transcript that only grows, by whole lines or by a line
\* written in two parts, and indexFile calls.
NextAppend ==
  \/ \E f \in SpecFiles, ln \in WriterLines : AppendLine(f, ln) /\ UNCHANGED <<mcVars, hcVars, svcVars>>
  \/ \E f \in SpecFiles, ln \in PartialLines : AppendPartial(f, ln) /\ UNCHANGED <<mcVars, hcVars, svcVars>>
  \/ \E f \in SpecFiles : CompleteLine(f) /\ UNCHANGED <<mcVars, hcVars, svcVars>>
  \/ \E f \in SpecFiles : IndexFile(f) /\ UNCHANGED <<mcVars, hcVars, svcVars>>
  \/ PassRead /\ UNCHANGED <<mcVars, hcVars, svcVars>>
  \/ PassFinish /\ UNCHANGED <<mcVars, hcVars, svcVars>>

SpecAppend == Init /\ [][NextAppend]_vars

\* SpecClient: one OrchestratorClient, its owner, the orchestrator's
\* messages, the network and the client's timers.
InitClient == IxRest /\ McRest /\ HcRest /\ SvcRest

NextClient ==
  \/ OcConnect
  \/ OcDisconnect
  \/ \E s \in Sockets : OcOpen(s)
  \/ \E s \in Sockets : \E success \in BOOLEAN : OcRegistered(s, success)
  \/ \E s \in Sockets : OcCommandDisconnect(s)
  \/ OcPing
  \/ \E s \in Sockets : OcPong(s)
  \/ OcHeartbeatTimeout
  \/ OcWake
  \/ \E s \in Sockets : OcClose(s)
  \/ \E t \in TimerIds : OcTimer(t)

SpecClient == InitClient /\ [][NextClient]_allVars

\* SpecDetector: the lock files, the foreign processes, the process scan and
\* the detection calls.
NextDetector ==
  \/ \E q \in DetProjects : DetDetect(q)
  \/ \E q \in DetProjects : DetCreateSessionLock(q, "s")
  \/ \E q \in DetProjects : DetRemoveSessionLock(q)
  \/ \E q \in DetProjects : \E l \in ForeignLocks : DetForeignLock(q, l)
  \/ \E q \in ForeignPids : DetForeignProcess(q)
  \/ DetScan

SpecDetector == InitClient /\ [][NextDetector]_allVars

\* SpecRoute: the sessions route, its clients and the writers of the
\* sessions table.
NextRoute ==
  \/ \E timeframe \in Timeframes : \E conditional \in BOOLEAN :
       RtGet(timeframe, conditional)
  \/ RtTick
  \/ \E session \in StoreSessions :
       StoreUpsertSession(session) /\ UNCHANGED <<mcVars, hcVars, svcVars>>

SpecRoute == InitClient /\ [][NextRoute]_allVars

\* ------------------------------------------------ what the claims speak of
SessionRows(sid) == {r \in db.message_index : r.session_id = sid}

\* Line i of f is a record of session sid that is on disk up to its last
\* byte of text.
OwnLine(f, i, sid) ==
  /\ f.lines[i].kind = "rec"
  /\ f.lines[i].sessionId = sid
  /\ (i < Len(f.lines) \/ f.pend <= 1)

OwnLines(f, sid) == {i \in 1..Len(f.lines) : OwnLine(f, i, sid)}

\* The index of the file's content: the k-th message of the session, in file
\* order, is numbered k and points at the first byte of its line.
DerivedRows(f, filePath) ==
  LET sid == SessionIdOf(filePath)
  IN {[session_id |-> sid,
       message_number |-> Cardinality({j \in OwnLines(f, sid) : j <= i}),
       uuid |-> f.lines[i].uuid, type |-> f.lines[i].type,
       timestamp |-> f.lines[i].timestamp,
       byte_offset |-> LineStart(f.lines, i), file_path |-> filePath] :
      i \in OwnLines(f, sid)}

\* The message_index row of an entry of the pass.
RowOf(e) ==
  [session_id |-> e.sessionId, message_number |-> e.messageNumber,
   uuid |-> e.uuid, type |-> e.type, timestamp |-> e.timestamp,
   byte_offset |-> e.byteOffset, file_path |-> e.filePath]

Returned(kind) == pass.pc = "idle" /\ pass.result.kind = kind

CurFile == files[pass.file]

Entries == pass.loc.messageIndexes

\* Entry e of the pass stands for line i of the file.
EntryIsLine(e, i) ==
  /\ LineStart(CurFile.lines, i) = e.byteOffset
  /\ OwnLine(CurFile, i, SessionIdOf(pass.file))
  /\ CurFile.lines[i].uuid = e.uuid
  /\ CurFile.lines[i].type = e.type

\* ------------------------------------------------------------------ claims
\* C1: a file indexed once by a full pass (T >= 1 messages), then appended
\* with N >= 1 well-formed lines of its session, is indexed by the next pass
\* incrementally: isIncremental is true, messagesIndexed is N, and the
\* session's rows are the old rows 1..T, unchanged, plus rows T+1..T+N.
C1_IncrementalAppend ==
  LET f == CurFile
      sid == SessionIdOf(pass.file)
      N == Len(f.lines) - g.prevN
  IN (/\ Returned("indexed")
      /\ g.clean /\ g.prevOk /\ f.pend = 0
      /\ N >= 1
      /\ \E i \in 1..g.prevN : OwnLine(f, i, sid)
      /\ \A i \in (g.prevN + 1)..Len(f.lines) : OwnLine(f, i, sid))
     => /\ pass.result.isIncremental = "true"
        /\ pass.result.messagesIndexed = N
        /\ SessionRows(sid) = DerivedRows(f, pass.file)

\* C2: the byte_offset of every index entry a pass makes is the position of
\* the first byte of that message's line in the file, whatever lines (blank,
\* malformed, summary, other session) come before it; the row the pass stores
\* carries that offset.
C2_ByteOffsetIsLineStart ==
  ((pass.pc = "read" \/ Returned("indexed")) /\ g.intact)
  => \A j \in 1..Len(Entries) :
       /\ \E i \in 1..Len(CurFile.lines) : EntryIsLine(Entries[j], i)
       /\ Returned("indexed") => RowOf(Entries[j]) \in db.message_index

C2_Witness ==
  /\ Returned("indexed") /\ g.intact
  /\ Truthy(pass.isIncremental)
  /\ \E j \in 1..Len(Entries), i, k \in 1..Len(CurFile.lines) :
       /\ CurFile.lines[i].kind = "bad"
       /\ CurFile.lines[k] = RecSummary
       /\ LineStart(CurFile.lines, i) < Entries[j].byteOffset
       /\ LineStart(CurFile.lines, k) < Entries[j].byteOffset

\* C3: for a file whose checkpoint records a larger size and another mtime
\* the pass is a full pass: not incremental, from offset 0, the session's old
\* rows purged, and when it returns the session's rows are exactly those of
\* the file's content.
C3_TruncationFullReindex ==
  /\ (pass.pc = "read" /\ g.shrunk)
     => /\ ~Truthy(pass.isIncremental)
        /\ pass.startOffset = 0
        /\ SessionRows(SessionIdOf(pass.file)) = {}
  /\ (Returned("indexed") /\ g.shrunk /\ g.clean)
     => /\ ~Truthy(pass.result.isIncremental)
        /\ pass.startOffset = 0
        /\ SessionRows(SessionIdOf(pass.file)) = DerivedRows(CurFile, pass.file)

C3_Witness ==
  /\ Returned("indexed") /\ g.shrunk /\ g.clean
  /\ SessionRows(SessionIdOf(pass.file)) # {}

\* C4: a pass over a file whose checkpoint records the file's current mtime
\* returns skipped/unchanged and leaves the whole store as it was.
C4_UnchangedSkips ==
  [][(/\ pass.pc = "idle"
      /\ pass' # pass
      /\ \E r \in db.file_state :
           r.file_path = pass'.file /\ r.last_mtime = files[pass'.file].mtime)
     => (/\ pass'.pc = "idle"
         /\ pass'.result.kind = "unchanged"
         /\ db' = db)]_vars

C4_Witness ==
  /\ Returned("unchanged")
  /\ SessionRows(SessionIdOf(pass.file)) # {}
  /\ db.uuid_mapping # {}
  /\ db.sessions # {}

\* C5: every checkpoint has last_byte_offset <= file_size.
C5_OffsetWithinSize ==
  \A r \in db.file_state : r.last_byte_offset <= r.file_size

C7_CheckpointLast ==
  [][(db'.file_state # db.file_state)
     => (/\ pass'.pc = "idle"
         /\ pass'.result.kind = "indexed"
         /\ \A j \in 1..Len(pass'.loc.messageIndexes) :
              RowOf(pass'.loc.messageIndexes[j]) \in db'.message_index
         /\ \A j \in 1..Len(pass'.loc.uuidMappings) :
              \E m \in db'.uuid_mapping :
                /\ m.uuid = pass'.loc.uuidMappings[j].uuid
                /\ m.session_id = SessionIdOf(pass'.file)
         /\ \E x \in db'.sessions :
              /\ x.id = SessionIdOf(pass'.file)
              /\ x.message_count >= pass'.loc.messageNumber
         /\ [file_path |-> pass'.file,
             last_byte_offset |-> pass'.loc.byteOffset,
             last_mtime |-> pass'.stats.mtimeMs,
             file_size |-> pass'.stats.size] \in db'.file_state)]_vars

C7_Witness ==
  /\ Returned("indexed")
  /\ Len(Entries) >= 2
  /\ Len(pass.loc.uuidMappings) >= 2
  /\ \E r \in db.file_state : r.file_path = pass.file /\ r.last_mtime = pass.stats.mtimeMs

\* C8: a pass that crashed before its checkpoint write and is run again on
\* the same file content leaves the store (message rows, identity edges,
\* session row, checkpoint) as one uninterrupted pass would have left it.
C8_RerunEqualsOnePass ==
  (Returned("indexed") /\ g.crashed /\ g.clean) => db = g.expect

C8_Witness ==
  /\ Returned("indexed") /\ g.crashed /\ g.clean
  /\ Len(Entries) >= 1
  /\ Truthy(pass.isIncremental)
  /\ db = g.expect

\* C9: the store at rest never holds a message row with a uuid without the
\* identity edge of that uuid: the two batches of a pass are one commit.
C9_AtomicBatches ==
  pass.pc = "idle"
  => \A r \in db.message_index :
       r.uuid # NullStr => \E m \in db.uuid_mapping : m.uuid = r.uuid

\* C10: no exception leaves processSessionFile; in a scan the result of a
\* file is skipped/error exactly when its stat, its stream or a store call
\* failed, and a scan that got its listing has a result for every listed
\* file when it ends.
C10_ErrorIsolated ==
  /\ ~pass.result.thrown
  /\ \A i \in 1..Len(scan.results) :
       (scan.results[i].kind = "error") <=> (scan.listed[i] \in g.faulted)
  /\ (scan.pc = "off" /\ scan.listed # <<>>)
     => Len(scan.results) = Len(scan.listed)

C10_Witness ==
  /\ scan.pc = "off" /\ scan.outcome = "done"
  /\ Len(scan.results) = 2
  /\ scan.results[1].kind = "error"
  /\ scan.results[2].kind = "indexed"
  /\ scan.results[2].messagesIndexed >= 1

\* C11: the first pass over a file without a checkpoint that holds m records
\* of its own session, among malformed and other lines, returns
\* messagesIndexed = m and totalMessages = m, leaves the rows 1..m of the
\* session in file order, and a session row with message_count = m.
C11_FreshFullPass ==
  LET sid == SessionIdOf(pass.file)
      m == Cardinality(OwnLines(CurFile, sid))
  IN (Returned("indexed") /\ g.clean /\ g.fresh)
     => /\ pass.result.messagesIndexed = m
        /\ pass.result.totalMessages = m
        /\ SessionRows(sid) = DerivedRows(CurFile, pass.file)
        /\ {r.message_number : r \in SessionRows(sid)} = 1..m
        /\ \E x \in db.sessions : x.id = sid /\ x.message_count = m
        /\ \A x, y \in db.sessions : x.id = y.id => x = y

C11_Witness ==
  /\ Returned("indexed") /\ g.clean /\ g.fresh
  /\ pass.result.messagesIndexed = 2
  /\ Len(CurFile.lines) = 3
  /\ \E i \in 1..2 : CurFile.lines[i].kind = "bad"
  /\ \E x \in db.sessions : x.id = SessionIdOf(pass.file) /\ x.message_count = 2

\* ---------------------------------------------- claims on the message cache
\* The body entries of the (project, session) pair k: those whose key is
\* `${cacheKey}:${n}` for a message number n.
BodiesOf(bodies, k) ==
  {i \in 1..Len(bodies) :
     \E n \in 0..9 : bodies[i].key = BodyKey(CacheKeyOf(k), n)}

NumberOf(key, k) == CHOOSE n \in 0..9 : key = BodyKey(CacheKeyOf(k), n)

\* C12: whatever the interleaving of message reads and list rebuilds, a body
\* entry keyed (S, n) was read at the offset the cached list of S gives n.
C12_BodiesFollowList ==
  \A k \in McKeys : \A i \in BodiesOf(messageBodyCache, k) :
    MapHas(sessionListCaches, CacheKeyOf(k))
    => LET cache == MapGet(sessionListCaches, CacheKeyOf(k))
           n == NumberOf(messageBodyCache[i].key, k)
       IN /\ n \in 1..Len(cache.offsets)
          /\ messageBodyCache[i].val.off = cache.offsets[n]

EntriesOf(bodies, k) == {bodies[i] : i \in BodiesOf(bodies, k)}

\* C13: when getSessionListCache has rebuilt the list of session S, the body
\* cache holds no entry of S and the entries of every other session are as
\* they were before.
C13_RebuildPurgesOnlyOwn ==
  [][\A c \in Procs :
       (calls[c].pc = "build" /\ calls'[c].pc # "build")
       => /\ BodiesOf(messageBodyCache', calls[c].key) = {}
          /\ \A k \in McKeys \ {calls[c].key} :
               EntriesOf(messageBodyCache', k) = EntriesOf(messageBodyCache, k)]_allVars

\* C14: a getMessageByNumber call that waits for its single-line read
\* returns in the end, with a message or with null.
C14_ReadReturns ==
  \A c \in MessageCallers :
    (calls[c].pc = "read")
    ~> (mcg.ret.op = "msg" /\ mcg.ret.kind \in {"message", "null"})

\* The length of the list getSessionListCache(project, session) would return
\* when called in the current state: the cached list, or the list of a
\* rebuild where the entry needs a refresh.
ListLengthNow(k) ==
  LET ck == CacheKeyOf(k)
  IN IF NeedsRefresh(sessionListCaches, ck, FALSE,
                     getFileMtime(disk, McPath(k)), now)
     THEN Len(buildMessageIndex(disk, k.project, k.session).list)
     ELSE Len(MapGet(sessionListCaches, ck).list)

\* C15: getMessageByNumber never returns a message for a number outside
\* [1, L], L being the length of the list getSessionListCache would return
\* at the call (for a call answered from the body cache) or did return to
\* the call (for a call that read the file); it returns a message or null.
C15_OutOfRangeIsNull ==
  [][(mcg'.ret.op = "msg")
     => /\ mcg'.ret.kind \in {"message", "null"}
        /\ (mcg'.ret.kind = "message" /\ mcg'.ret.hit)
           => mcg'.ret.n \in 1..ListLengthNow(mcg'.ret.key)
        /\ (mcg'.ret.kind = "message" /\ ~mcg'.ret.hit)
           => mcg'.ret.n \in 1..Len(mcg'.ret.cache.list)]_allVars

\* C16: the body cache never holds more than MAX_CACHED_MESSAGES entries,
\* the states between the reads of getMessagesByRange included.
C16_BodyCacheBounded == Len(messageBodyCache) <= MAX_CACHED_MESSAGES

C18_BodyExpiresAfterRead ==
  /\ (mcg.ret.kind = "message") => now - mcg.ret.readAt <= MESSAGE_CACHE_TTL
  /\ \A i \in 1..Len(mcg.ret.items) :
       mcg.ret.items[i].age <= MESSAGE_CACHE_TTL

\* C19: getSessionListCache re-scans the file exactly when forceRefresh is
\* set, no entry is cached, the file's current mtime (none when the file is
\* gone) differs from the entry's, or more than LIST_CACHE_TTL has passed
\* since the entry was built; otherwise the cached entry is returned as is.
C19_RescanExactlyWhenStale ==
  [][\A c \in Procs :
       (calls[c].pc = "stat" /\ calls'[c] # calls[c])
       => LET ck == CacheKeyOf(calls[c].key)
              stale ==
                \/ calls[c].force
                \/ ~MapHas(sessionListCaches, ck)
                \/ getFileMtime(disk, McPath(calls[c].key))
                     # MapGet(sessionListCaches, ck).mtime
                \/ now - MapGet(sessionListCaches, ck).timestamp > LIST_CACHE_TTL
          IN /\ (calls'[c].pc = "build") <=> stale
             /\ ~stale
                => /\ sessionListCaches' = sessionListCaches
                   /\ (calls[c].op = "list")
                      => mcg'.ret.cache = MapGet(sessionListCaches, ck)]_allVars

\* C20: invalidateCache(p, s) removes the list entry and every body entry
\* of (p, s) and leaves the list entries and the body entries of every
\* other (project, session) pair as they were.
C20_InvalidateOnlyOwn ==
  [][\A k \in McKeys :
       McInvalidateCache(k)
       => /\ ~MapHas(sessionListCaches', CacheKeyOf(k))
          /\ BodiesOf(messageBodyCache', k) = {}
          /\ \A o \in McKeys \ {k} :
               /\ EntriesOf(messageBodyCache', o) = EntriesOf(messageBodyCache, o)
               /\ MapHas(sessionListCaches', CacheKeyOf(o))
                    = MapHas(sessionListCaches, CacheKeyOf(o))
               /\ MapHas(sessionListCaches, CacheKeyOf(o))
                  => MapGet(sessionListCaches', CacheKeyOf(o))
                       = MapGet(sessionListCaches, CacheKeyOf(o))]_allVars

\* ------------------------------------------------- claims on the index store
\* a is not later than b; an absent timestamp is earlier than any other.
NotLater(a, b) == a = NullNum \/ (b # NullNum /\ a <= b)

LaterOf(a, b) == IF NotLater(a, b) THEN b ELSE a

\* C21: over any sequence of upsertSession calls for a session id the stored
\* message_count and the stored last_activity never decrease.
C21_SessionNeverDecreases ==
  [][\A x \in db.sessions :
       \E y \in db'.sessions :
         /\ y.id = x.id
         /\ y.message_count >= x.message_count
         /\ NotLater(x.last_activity, y.last_activity)]_vars

C21_Witness ==
  /\ g.lowered
  /\ \E x \in db.sessions :
       x.message_count = MaxCount /\ x.last_activity = MaxStamp

\* C22: after upsertSession on an existing session the stored message_count
\* is the maximum of the previous and the incoming count, and the stored
\* last_activity is the later of the previous and the incoming one, an
\* absent value being earlier than any timestamp.
C22_UpsertTakesLater ==
  [][\A s \in StoreSessions : \A x \in db.sessions :
       (StoreUpsertSession(s) /\ x.id = s.id)
       => \E y \in db'.sessions :
            /\ y.id = s.id
            /\ y.message_count = IF s.messageCount > x.message_count
                                 THEN s.messageCount ELSE x.message_count
            /\ y.last_activity = LaterOf(x.last_activity, s.lastActivity)]_vars

\* C23: once a session row holds a cwd (a file path), an upsertSession that
\* carries another cwd (file path) leaves the stored one as it is.
C23_FirstWriteWins ==
  [][\A s \in StoreSessions : \A x \in db.sessions :
       (StoreUpsertSession(s) /\ x.id = s.id)
       => \E y \in db'.sessions :
            /\ y.id = s.id
            /\ (x.cwd # NullStr /\ s.cwd # NullStr) => y.cwd = x.cwd
            /\ (x.file_path # NullStr /\ s.filePath # NullStr)
               => y.file_path = x.file_path]_vars

\* C24: when indexProject has scanned a directory and indexed a file whose
\* messages carry timestamps, the project row's last_activity is at least
\* the latest message timestamp of that session.
C24_ProjectLastActivity ==
  (scan.pc = "off" /\ scan.outcome = "done")
  => \A i \in 1..Len(scan.results) : \A x \in db.sessions :
       (/\ scan.results[i].kind = "indexed"
        /\ x.id = scan.results[i].sessionId
        /\ x.last_activity # NullNum)
       => \E p \in db.projects :
            /\ p.name = ProjectName
            /\ NotLater(x.last_activity, p.last_activity)

\* ----------------------------------------------- claims on the history cache
\* C25: once the log's mtime has changed, no getSessionPrompts call returns
\* memoized entries that were read from the log before the change: a call
\* answered from the cache returns entries read at the log's current mtime,
\* and a call that sees the change leaves no older entry in the cache.
C25_ChangedLogIsRescanned ==
  /\ (hg.ret.kind = "entries" /\ hg.ret.hit)
     => hg.ret.readMtime = HistoryMtime(hlog)
  /\ hg.ret.cleared => sessionCache = <<>>

\* The place of a session in the order of last accesses.
PlaceOf(recent, sessionId) == CHOOSE i \in 1..Len(recent) : recent[i] = sessionId

\* C26: the history cache never holds more than its maximum of sessions, and
\* a session evicted on overflow was last accessed by a getSessionPrompts call
\* (hit or miss) before every session that stays.
C26_HistoryLru ==
  /\ Len(sessionCache) <= HcMaxCachedSessions
  /\ \A e \in hg.ev.gone : \A k \in hg.ev.kept :
       PlaceOf(hg.recent, e) < PlaceOf(hg.recent, k)

C26_Witness ==
  /\ hg.ev.gone # {}
  /\ hg.ret.kind = "entries" /\ ~hg.ret.hit
  /\ Len(sessionCache) = HcMaxCachedSessions
  /\ \E i \in 1..Len(sessionCache) :
       sessionCache[i].val.timestamp < now /\ sessionCache[i].key # hg.ret.sessionId

\* C27: with the session file and the prompt log unchanged, a getMessageList
\* call returns what the call before it returned for the same session
\* (messages, total, cachedAt, lastUserPrompt), also when LIST_CACHE_TTL has
\* passed in between.
C27_RepeatedListEqual ==
  [][(mcg'.ret.kind = "listing"
      /\ mcg.listed[mcg'.ret.key] # NoListing)
     => mcg'.ret.listing = mcg.listed[mcg'.ret.key]]_allVars

\* ------------------------------------------ claims on the layers together
\* The project directory as the message access layer finds it when the
\* transcript of session a holds the lines of f.
SessionDisk(f) ==
  [q \in McPaths |->
     IF q = McPath([project |-> "p", session |-> "a"])
     THEN [exists |-> TRUE, lines |-> f.lines, pend |-> f.pend, mtime |-> f.mtime]
     ELSE NoFile]

\* C28: after a full pass over a session file, every line has in the index
\* store the message number under which the message access layer lists it,
\* whatever the order of the timestamps in the file.
C28_SameMessageNumbers ==
  (Returned("indexed") /\ g.clean /\ g.fresh /\ pass.file = "a")
  => LET built == buildMessageIndex(SessionDisk(CurFile), "p", SessionIdOf(pass.file))
     IN \A r \in SessionRows(SessionIdOf(pass.file)) :
          \E i \in 1..Len(built.offsets) :
            /\ built.offsets[i] = r.byte_offset
            /\ built.list[i].number = r.message_number

\* C29: in a file that only grows, once the last line is complete and a pass
\* over the unchanged file has returned, that line's message has an index
\* row at the first byte of the line, also when an earlier pass ran while
\* only part of the line was written.
C29_LastLineIndexed ==
  LET n == Len(CurFile.lines)
      sid == SessionIdOf(pass.file)
  IN (/\ Returned("indexed") /\ g.clean
      /\ CurFile.pend = 0 /\ n > 0
      /\ CurFile.lines[n].kind = "rec" /\ CurFile.lines[n].sessionId = sid)
     => \E r \in SessionRows(sid) : r.byte_offset = LineStart(CurFile.lines, n)

\* The store as the running pass leaves it when the file stays as it is.
AfterPass ==
  LET r == ReadAll(CurFile, [pos |-> pass.pos, loc |-> pass.loc],
                   SessionIdOf(pass.file), pass.file)
  IN ApplyWrites(db, [pass EXCEPT !.pos = r.pos, !.loc = r.loc], Len(PassOrder))

\* C30: while a pass from offset 0 waits for its stream, getMessageListFromDb
\* returns for the session the list of before the pass or the list of after
\* it, never an empty or a partial one.
C30_ReaderSeesWholeList ==
  LET sid == SessionIdOf(pass.file)
  IN (pass.pc = "read" /\ ~Truthy(pass.isIncremental) /\ g.clean)
     => \/ getMessageListFromDb(db, sid)
             = getMessageListFromDb([db EXCEPT !.message_index = g.prior], sid)
        \/ getMessageListFromDb(db, sid) = getMessageListFromDb(AfterPass, sid)

\* ------------------------------------------------ claims on the passes' frame
\* C31: after every pass that returns a result (first, incremental or from
\* offset 0 after a truncation), the session's message_count is the number of
\* its message_index rows.
C31_CountIsRowCount ==
  LET sid == SessionIdOf(pass.file)
  IN Returned("indexed")
     => \E s \in db.sessions :
          s.id = sid /\ s.message_count = Cardinality(SessionRows(sid))

\* C32: after an indexProject scan in which no call failed, the project's
\* session_count is the number of transcript files of the directory, the
\* files skipped as unchanged included.
C32_SessionCountIsFileCount ==
  (scan.pc = "off" /\ scan.outcome = "done" /\ g.faulted = {})
  => \E p \in db.projects :
       p.name = ProjectName /\ p.session_count = Len(scan.listed)

\* C33: a pass that returns {skipped: true, reason: 'error'} leaves the
\* file's checkpoint, the session's index rows and its session row as they
\* were when it started.
C33_ErrorLeavesStore ==
  Returned("error") => StoreOf(db, pass.file) = g.before

\* The checkpoint the running pass met, and the session's rows it met.
MetCheckpoint == g.before.file_state

\* The running pass is incremental: it starts at the checkpoint's offset and
\* has purged nothing.
RunsIncremental ==
  /\ Truthy(pass.isIncremental)
  /\ pass.startOffset = Row(MetCheckpoint).last_byte_offset
  /\ g.before.message_index \subseteq SessionRows(SessionIdOf(pass.file))

\* The running pass has purged the session's rows and starts at offset 0.
RunsFromZero ==
  /\ ~Truthy(pass.isIncremental)
  /\ pass.startOffset = 0
  /\ SessionRows(SessionIdOf(pass.file)) = {}

MappedUuids(d) == {r.uuid : r \in d.uuid_mapping}

\* C35: no step of a pass removes a uuid from uuid_mapping: a uuid that has
\* a row keeps one, through passes from offset 0 after truncations too.
C35_EdgesAreKept == [][MappedUuids(db) \subseteq MappedUuids(db')]_vars

\* A pass from offset 0 over a cut file has returned, and a uuid that is no
\* longer in the file still has its row.
C35_Witness ==
  /\ Returned("indexed") /\ g.shrunk
  /\ \E u \in MappedUuids(db) :
       \A i \in 1..Len(CurFile.lines) : CurFile.lines[i].uuid # u

\* ------------------------------------------- claims on interleaved log scans
\* C36: a getSessionPrompts call made when the log's current mtime had
\* already been detected, and answered from the cache while the log still
\* has that mtime, returns every line the log holds for its session: no scan
\* begun before the change leaves its entries in the cache behind the clear.
\* (A call that scans the log itself between those two moments reads the
\* log as it is.)
C36_NoStaleScanBehindClear ==
  [][\A c \in Procs :
       (/\ hcalls[c].pc = "stat" /\ hcalls'[c].pc = "idle"
        /\ hg'.ret.kind = "entries"
        /\ hcalls[c].detected
        /\ hcalls[c].since = HistoryMtime(hlog))
       => hg'.ret.entries = streamEntriesForSession(hlog, hcalls[c].sessionId)]_allVars

\* ------------------------------------------- claims on the orchestrator client
\* C37: at most one reconnect timeout is pending, and the loss of a socket
\* increments reconnectAttempts at most once, also when forceReconnect
\* terminated the socket and the socket's 'close' event follows.
C37_OneTimerOneAttempt ==
  /\ Cardinality(oc.timers) <= 1
  /\ \A s \in Sockets : og.counted[s] <= 1

\* C38: from disconnect() (by the owner or by a DISCONNECT command) until
\* the owner's next connect(), no step creates a WebSocket or sets a
\* reconnect timeout.
C38_DisconnectedStaysQuiet ==
  [][(og.quiet /\ og'.quiet)
     => /\ \A s \in Sockets : oc.socks[s] = "none" => oc'.socks[s] = "none"
        /\ oc'.timers \subseteq oc.timers]_allVars

\* ---------------------------------------------- claims on the session detector
\* C39: a detection for a project whose session.lock is the one this process
\* wrote with createSessionLock, with no process and no tmux session in the
\* scan, reports hasExternalSession = false.
C39_OwnLockIsNotExternal ==
  (/\ dg.kind = "result"
   /\ det.lock[dg.projectPath].kind = "json"
   /\ det.lock[dg.projectPath].pid = OwnPid
   /\ det.lock[dg.projectPath].app = "claudecodeui"
   /\ dg.processes = {} /\ dg.tmuxSessions = {})
  => ~dg.hasExternalSession

\* ------------------------------------------------ claims on the sessions route
\* C40: a request that is answered 304 to the ETag the client holds would
\* otherwise have got the sessions the client received with that ETag.
C40_NotModifiedMeansSamePayload ==
  [][\A timeframe \in Timeframes :
       (RtGet(timeframe, TRUE) /\ rt'.resp.status = 304)
       => SessionsPayload(getSessions(db, TimeframMs(timeframe), rt.now))
            = rt.held.sessions]_allVars
====
